---- MODULE Spec2Model ----
(***************************************************************************)
(* TDC_UART: the telemetry pairing engine and the round/step sequencer of  *)
(* scripts/tdc_uart_scan_GUI.py (class TDC_GUI) and the framing receiver   *)
(* of scripts/tdc_uart_scan.py (TDCUartScanner.receive_data).              *)
(*                                                                         *)
(* A 32-bit word is kept as two 16-bit halves [hi, lo] (value = hi*2^16 +  *)
(* lo) because TLC's integers are 32-bit signed.  A float number of the    *)
(* program is kept as an exact rational [num, den].  The record            *)
(* buffer csv_data_buffer is kept by its length, the Treeview and the      *)
(* display counters (total_packets, up_count, down_count) and the SEL/CSA  *)
(* labels are left out.                                                    *)
(***************************************************************************)
EXTENDS Integers, Sequences, FiniteSets, TLC

VARIABLES
  \* ---- TDC_GUI ----
  is_connected, ser_open, stop_thread, rx_threads,
  data_queue, pending_ups, csv_data_buffer,
  test_mode, last_test_mode, test_current_round, test_round_pairs,
  test_delta_values, test_latched_cmd, scan_step, scan_results,
  test_target_rounds, test_target_pairs_per_round, btn_start,
  timers, pc, processed, limit,
  tx_last,
  \* ---- history variables (not program state) ----
  n_issued, sess_clean, sess_done, up_hist, last_evt,
  \* ---- the device end of the serial line ----
  n_put, dev_k, dev_left,
  \* ---- TDCUartScanner.receive_data ----
  cli_pc, cli_wire, cli_in, cli_buffer, cli_data_list, cli_expected,
  cli_read, cli_frames,
  \* ---- inputs and result of the coarse-difference computation ----
  probe,
  \* ---- the reader threads and the bytes of the serial line ----
  readers, rx_wire, rx_in, rx_taken,
  \* ---- arguments and outcome of TDCUartScanner.send_command ----
  cli_send,
  \* ---- request and report of the analysis windows ----
  analysis

connVars == <<is_connected, ser_open, stop_thread, rx_threads, readers>>
sessVars == <<test_mode, last_test_mode, test_current_round, test_round_pairs,
              test_delta_values, test_latched_cmd, scan_step, scan_results,
              test_target_rounds, test_target_pairs_per_round, btn_start>>
tickVars == <<pc, processed, limit>>
pairHist == <<up_hist, last_evt>>
sessHist == <<n_issued, sess_clean, sess_done>>
cliVars == <<cli_pc, cli_wire, cli_in, cli_buffer, cli_data_list,
             cli_expected, cli_read, cli_frames>>
\* what no operation of the GUI touches
rxVars == <<rx_wire, rx_in, rx_taken>>
otherVars == <<cliVars, probe, rxVars, cli_send, analysis>>
devVars == <<n_put, dev_k, dev_left, otherVars>>

vars == <<is_connected, ser_open, stop_thread, rx_threads,
          data_queue, pending_ups, csv_data_buffer,
          test_mode, last_test_mode, test_current_round, test_round_pairs,
          test_delta_values, test_latched_cmd, scan_step, scan_results,
          test_target_rounds, test_target_pairs_per_round, btn_start,
          timers, pc, processed, limit, tx_last,
          n_issued, sess_clean, sess_done, up_hist, last_evt,
          n_put, dev_k, dev_left,
          cli_pc, cli_wire, cli_in, cli_buffer, cli_data_list, cli_expected,
          cli_read, cli_frames, probe,
          readers, rx_wire, rx_in, rx_taken, cli_send, analysis>>

None == "None"

(***************************************************************************)
(* Bounds of the model                                                     *)
(***************************************************************************)
MaxRounds == 2
MaxPulses == 2
MaxQueue == 3
MaxThreads == 1
MaxRecords == 3

(***************************************************************************)
(* 32-bit words as halves                                                  *)
(***************************************************************************)
Pow2(n) == 2 ^ n

\* raw_int & 0x3FF
COARSE_MASK == 1023

RECURSIVE BitOr(_, _, _)
BitOr(a, b, n) ==
  IF n = 0 THEN 0
  ELSE IF a = 0 THEN b % Pow2(n)
  ELSE IF b = 0 THEN a % Pow2(n)
  ELSE (IF (a % 2 = 1) \/ (b % 2 = 1) THEN 1 ELSE 0)
       + 2 * BitOr(a \div 2, b \div 2, n - 1)

WordOr(x, y) == [hi |-> BitOr(x.hi, y.hi, 16), lo |-> BitOr(x.lo, y.lo, 16)]

\* field << s as a 32-bit word, for a field below 2^8
Shl(field, s) ==
  IF s >= 16
    THEN [hi |-> (field * Pow2(s - 16)) % 65536, lo |-> 0]
    ELSE [hi |-> (field * Pow2(s)) \div 65536, lo |-> (field * Pow2(s)) % 65536]

\* no word written yet
NoWord == [hi |-> -1, lo |-> -1]

(***************************************************************************)
(* parse_packet: the GUI receive layout                                    *)
(*   [31:30] type, [29:24] id, [23:11] fine, [10] flag, [9:0] coarse       *)
(***************************************************************************)
\* the type taken from bit 30 alone
TypeStr_OneBit(code) == <<"UP", "DOWN", "INFO", "CMD">>[(code % 2) + 1]

TypeStr(code) == <<"UP", "DOWN", "INFO", "CMD">>[code + 1]

\* the id read at the place and width the scanner's layout gives it
parse_packet_Id8(raw_int) ==
  LET data_type   == (raw_int.hi \div Pow2(14)) % 4
      measure_id  == (raw_int.hi \div Pow2(6)) % 256
      fine_time   == ((raw_int.hi % 256) * 32 + raw_int.lo \div Pow2(11)) % 8192
      flag_ch     == (raw_int.lo \div Pow2(10)) % 2
      coarse_time == raw_int.lo % (COARSE_MASK + 1)
  IN [type   |-> TypeStr(data_type),
      ch     |-> IF flag_ch = 1 THEN "UP" ELSE "DOWN",
      id     |-> measure_id,
      coarse |-> coarse_time,
      fine   |-> fine_time]

parse_packet(raw_int) ==
  LET data_type   == (raw_int.hi \div Pow2(14)) % 4
      measure_id  == (raw_int.hi \div Pow2(8)) % 64
      fine_time   == ((raw_int.hi % 256) * 32 + raw_int.lo \div Pow2(11)) % 8192
      flag_ch     == (raw_int.lo \div Pow2(10)) % 2
      coarse_time == raw_int.lo % (COARSE_MASK + 1)
  IN [type   |-> TypeStr(data_type),
      ch     |-> IF flag_ch = 1 THEN "UP" ELSE "DOWN",
      id     |-> measure_id,
      coarse |-> coarse_time,
      fine   |-> fine_time]

\* a telemetry word as the device packs it under that layout
MkWord(t, id, fine, flag, coarse) ==
  [hi |-> t * Pow2(14) + id * Pow2(8) + fine \div 32,
   lo |-> (fine % 32) * Pow2(11) + flag * Pow2(10) + coarse]

(***************************************************************************)
(* Pairing arithmetic of update_ui_from_queue                              *)
(***************************************************************************)
CLK_FREQ_MHZ == 260
\* the period rounded to whole picoseconds
CLK_PERIOD_PS_Rounded == [num |-> 3846, den |-> 1]

\* CLK_PERIOD_PS = 1e12 / 260e6 ps, as a rational
CLK_PERIOD_PS == [num |-> 1000000, den |-> CLK_FREQ_MHZ]

\* the comparison taken as >= instead of >
CoarseDiff_Ge(down_coarse, up_coarse) ==
  LET c_diff_raw == (down_coarse - up_coarse + 1024) % 1024
  IN IF c_diff_raw >= 512 THEN c_diff_raw - 1024 ELSE c_diff_raw

CoarseDiff(down_coarse, up_coarse) ==
  LET c_diff_raw == (down_coarse - up_coarse + 1024) % 1024
  IN IF c_diff_raw > 512 THEN c_diff_raw - 1024 ELSE c_diff_raw

FineDiff(down_fine, up_fine) == down_fine - up_fine

\* the fine difference added instead of subtracted
DeltaPs_Plus(c_diff, f_diff) ==
  [num |-> c_diff * CLK_PERIOD_PS.num + f_diff * CLK_PERIOD_PS.den,
   den |-> CLK_PERIOD_PS.den]

\* dt_ps_val = c_diff * CLK_PERIOD_PS - f_diff
DeltaPs(c_diff, f_diff) ==
  [num |-> c_diff * CLK_PERIOD_PS.num - f_diff * CLK_PERIOD_PS.den,
   den |-> CLK_PERIOD_PS.den]

\* an UP that finds its id pending is dropped instead of replacing the entry
PendingInsert_KeepFirst(tbl, pkt) ==
  IF pkt.id \in DOMAIN tbl THEN tbl
  ELSE [i \in (DOMAIN tbl) \cup {pkt.id} |-> IF i = pkt.id THEN pkt ELSE tbl[i]]

\* self.pending_ups[pkt["id"]] = pkt
PendingInsert(tbl, pkt) ==
  [i \in (DOMAIN tbl) \cup {pkt.id} |-> IF i = pkt.id THEN pkt ELSE tbl[i]]

\* the entry read without being removed
PendingPop_Keep(tbl, id) == tbl

\* self.pending_ups.pop(pkt["id"])
PendingPop(tbl, id) == [i \in (DOMAIN tbl) \ {id} |-> tbl[i]]

\* pkt["type"] == "DOWN" and pkt["id"] in self.pending_ups
Matched(tbl, pkt) == pkt.type = "DOWN" /\ pkt.id \in DOMAIN tbl

EmptyTable == [i \in {} |-> None]

\* dt_ps_val = None
NoDelta == [num |-> 0, den |-> 0]

\* the test for a missing delta left out
Accepted_NoneUnchecked(mode, matched) == mode # "IDLE"

\* if self.test_mode != "IDLE": if dt_ps_val is not None:
Accepted(mode, matched) == mode # "IDLE" /\ matched

(***************************************************************************)
(* Round accounting of update_ui_from_queue                                *)
(***************************************************************************)
\* one round too many
MoreRounds_Le(round, target) == round <= target

\* the last step left out
MoreSteps_Five(step) == step < 5

\* a round that needs one pair more than asked for
RoundComplete_Late(pairs, per_round) == pairs > per_round

RoundComplete(pairs, per_round) == pairs >= per_round
MoreRounds(round, target) == round < target
MoreSteps(step) == step < 6

(***************************************************************************)
(* Command words                                                           *)
(***************************************************************************)
\* the mask shifted to bit 8
PixelCmd_Shift8(rst_bit, csa_val) ==
  WordOr(WordOr(WordOr(Shl(0, 31), Shl(0, 30)), WordOr(Shl(3, 28), Shl(0, 20))),
         WordOr(Shl(rst_bit, 19), Shl(csa_val, 8)))

\* get_current_cmd_int / run_scan_step: channel 0b11, reset bit 19, mask at 13
PixelCmd(rst_bit, csa_val) ==
  WordOr(WordOr(WordOr(Shl(0, 31), Shl(0, 30)), WordOr(Shl(3, 28), Shl(0, 20))),
         WordOr(Shl(rst_bit, 19), Shl(csa_val, 13)))

\* the word without the channel bits
get_current_cmd_int_NoChannel(rst_bit, csa_val) ==
  WordOr(Shl(rst_bit, 19), Shl(csa_val, 13))

get_current_cmd_int(rst_bit, csa_val) == PixelCmd(rst_bit, csa_val)

ScanStepCmd(rst_bit, step) == PixelCmd(rst_bit, Pow2(step))

RecalCmd == Shl(1, 31)

(***************************************************************************)
(* Inputs                                                                  *)
(***************************************************************************)
T_UP == 0
T_DOWN == 1
T_INFO == 2
T_CMD == 3

\* pairing alphabet: two UPs of id 5 with different times, a DOWN of id 5,
\* a DOWN of another id, an INFO word and a command echo
WordsPair ==
  { MkWord(T_UP, 5, 100, 1, 1020), MkWord(T_UP, 5, 60, 1, 10),
    MkWord(T_DOWN, 5, 80, 0, 5), MkWord(T_DOWN, 1, 80, 0, 5),
    MkWord(T_INFO, 5, 100, 0, 1020), MkWord(T_CMD, 5, 100, 0, 1020) }

\* sequencing alphabet: one UP and one DOWN of the same id
WordsSeq == { MkWord(T_UP, 1, 100, 1, 1020), MkWord(T_DOWN, 1, 80, 0, 5) }

CapPair == MaxRecords
CapFixed == 2 * MaxRounds * MaxPulses

(***************************************************************************)
(* History bookkeeping: per id, the latest UP consumed, whether it is      *)
(* still unpaired, and the UP it displaced while that one was unpaired     *)
(***************************************************************************)
NoPkt == [type |-> None, ch |-> None, id |-> -1, coarse |-> 0, fine |-> 0]
NoHist == [latest |-> NoPkt, avail |-> FALSE, lost |-> NoPkt, old |-> FALSE]
NoEvt == [kind |-> None]
HistOf(id) == IF id \in DOMAIN up_hist THEN up_hist[id] ELSE NoHist
HistSet(id, h) ==
  [i \in (DOMAIN up_hist) \cup {id} |-> IF i = id THEN h ELSE up_hist[i]]
\* a session starts: every UP consumed so far is older than the session
HistAged(ok) ==
  IF ok THEN [i \in DOMAIN up_hist |-> [up_hist[i] EXCEPT !.old = TRUE]]
  ELSE up_hist

(***************************************************************************)
(* TDC_GUI.__init__                                                        *)
(***************************************************************************)
GuiInit(main) ==
  /\ is_connected = FALSE
  /\ ser_open = FALSE
  /\ stop_thread = FALSE
  /\ rx_threads = 0
  /\ readers = <<>>
  /\ data_queue = <<>>
  /\ pending_ups = EmptyTable
  /\ csv_data_buffer = 0
  /\ test_mode = "IDLE"
  /\ last_test_mode = "IDLE"
  /\ test_current_round = 0
  /\ test_round_pairs = 0
  /\ test_delta_values = <<>>
  \* None, kept as a word that is no command so that it compares with words
  /\ test_latched_cmd = NoWord
  /\ scan_step = 0
  /\ scan_results = [k \in 0 .. 5 |-> <<>>]
  /\ test_target_rounds = 100
  /\ test_target_pairs_per_round = 100
  /\ btn_start = "normal"
  /\ timers = <<>>
  /\ pc = main
  /\ processed = 0
  /\ limit = 0
  /\ tx_last = NoWord
  /\ n_issued = 0
  /\ sess_clean = FALSE
  /\ sess_done = FALSE
  /\ up_hist = EmptyTable
  /\ last_evt = NoEvt
  /\ n_put = 0
  /\ dev_left = 0

InitGui == GuiInit("idle")

\* the GUI is not running
GuiOff == GuiInit("off") /\ dev_k = 0

\* the command-line scanner is not running
CliOff ==
  /\ cli_pc = "off"
  /\ cli_wire = <<>>
  /\ cli_in = <<>>
  /\ cli_buffer = <<>>
  /\ cli_data_list = <<>>
  /\ cli_expected = 0
  /\ cli_read = <<>>
  /\ cli_frames = <<>>

ProbeOff == probe = [up |-> 0, down |-> 0, c_diff |-> 0, done |-> FALSE]

\* the serial line is not modelled byte by byte
RxOff == rx_wire = <<>> /\ rx_in = <<>> /\ rx_taken = <<>>

\* send_command has not been called
NoSend == [state |-> "off"]
SendOff == cli_send = NoSend

NoAnalysis == [state |-> "off"]
AnalysisOff == analysis = NoAnalysis

\* the line delivers arbitrary words; no device is modelled
InitOpen == InitGui /\ dev_k = 0 /\ CliOff /\ ProbeOff /\ RxOff /\ SendOff /\ AnalysisOff

\* a device that answers every command with dev_k pulses
InitDevice ==
  InitGui /\ dev_k \in 1 .. MaxPulses /\ CliOff /\ ProbeOff /\ RxOff /\ SendOff /\ AnalysisOff

(***************************************************************************)
(* toggle_connection and the reader thread                                 *)
(***************************************************************************)
RemoveAt(s, i) == SubSeq(s, 1, i - 1) \o SubSeq(s, i + 1, Len(s))

\* A reader is kept by its local buffer, by whether the stop flag has been
\* raised since it started, and by whether it is past its loop test holding
\* the handle of a port that has been closed since (its next access raises).
NewReader == [buffer |-> <<>>, flagged |-> FALSE, stale |-> FALSE]

\* the readers that are still alive when the port is opened again: each is
\* either asleep (and will see the new flag and the new port) or stale
Survivors ==
  { [i \in 1 .. Len(readers) |-> [readers[i] EXCEPT !.stale = f[i]]] :
      f \in [1 .. Len(readers) -> BOOLEAN] }

\* toggle_connection with at most cap reader threads alive at a time
Toggle(cap) ==
  /\ pc = "idle"
  /\ IF ~is_connected
       THEN /\ rx_threads < cap
            /\ ser_open' = TRUE
            /\ is_connected' = TRUE
            /\ stop_thread' = FALSE
            /\ rx_threads' = rx_threads + 1
            /\ \E rs \in Survivors : readers' = Append(rs, NewReader)
            /\ UNCHANGED <<sess_clean, rx_in, rx_taken>>
       ELSE /\ stop_thread' = TRUE
            /\ ser_open' = FALSE
            /\ is_connected' = FALSE
            /\ UNCHANGED rx_threads
            /\ readers' = [i \in 1 .. Len(readers) |->
                             [readers[i] EXCEPT !.flagged = TRUE]]
            \* close() drops what was not read; the stream of the next
            \* connection starts afresh
            /\ rx_in' = <<>>
            /\ rx_taken' = SubSeq(rx_taken, 1, Len(rx_taken) - (Len(rx_taken) % 4))
            /\ sess_clean' = FALSE
  /\ UNCHANGED <<n_put, dev_k, dev_left, cliVars, probe, rx_wire,
                 cli_send, analysis, data_queue, pending_ups, csv_data_buffer, sessVars,
                 timers, tickVars, tx_last, n_issued, sess_done, pairHist>>

toggle_connection == Toggle(MaxThreads)

\* read_serial_thread: the loop condition fails and the thread ends
ReaderExitAt(i) ==
  /\ rx_threads > 0
  /\ stop_thread \/ ~ser_open \/ readers[i].stale
  /\ rx_threads' = rx_threads - 1
  /\ readers' = RemoveAt(readers, i)
  /\ UNCHANGED <<devVars, is_connected, ser_open, stop_thread, data_queue, pending_ups,
                 csv_data_buffer, sessVars, timers, tickVars, tx_last,
                 sessHist, pairHist>>

ReaderExit == \E i \in 1 .. Len(readers) : ReaderExitAt(i)

\* read_serial_thread: self.data_queue.put(raw_int) of the next framed word.
\* A put that lands while the callback runs is seen by the loop's next
\* queue-empty test as if it had landed before the callback started, so the
\* puts are taken between callbacks.
ReaderPut(raw_int) ==
  /\ rx_threads > 0
  /\ pc = "idle"
  /\ Len(data_queue) < MaxQueue
  /\ data_queue' = Append(data_queue, raw_int)
  /\ UNCHANGED <<connVars, pending_ups, csv_data_buffer, sessVars, timers,
                 tickVars, tx_last, sessHist, pairHist>>

\* the line delivers an arbitrary word, at most cap words in a run
WirePut(raw_int, cap) ==
  /\ n_put < cap
  /\ n_put' = n_put + 1
  /\ UNCHANGED <<dev_k, dev_left, otherVars>>
  /\ ReaderPut(raw_int)

\* the device answers a command with dev_k pulses, each an UP then a DOWN
DeviceWord == IF dev_left % 2 = 0 THEN MkWord(T_UP, 1, 100, 1, 1020)
                                  ELSE MkWord(T_DOWN, 1, 80, 0, 5)

DevicePut ==
  /\ dev_left > 0
  /\ dev_left' = dev_left - 1
  /\ UNCHANGED <<n_put, dev_k, otherVars>>
  /\ ReaderPut(DeviceWord)

\* the words the device owes after a command has been written to the port
Triggered == IF is_connected THEN 2 * dev_k ELSE dev_left

(***************************************************************************)
(* send_pixel_cmd / send_recalibrate                                       *)
(***************************************************************************)
\* what self.ser holds as the last word written after send_pixel_cmd(cmd)
Written(cmd) == IF is_connected THEN cmd ELSE tx_last

send_pixel_cmd(rst_bit, csa_val) ==
  /\ pc = "idle"
  /\ tx_last' = Written(get_current_cmd_int(rst_bit, csa_val))
  /\ dev_left' = Triggered
  /\ UNCHANGED <<n_put, dev_k, otherVars, connVars, data_queue, pending_ups, csv_data_buffer, sessVars,
                 timers, tickVars, sessHist, pairHist>>

send_recalibrate ==
  /\ pc = "idle"
  /\ tx_last' = Written(RecalCmd)
  /\ UNCHANGED <<devVars, connVars, data_queue, pending_ups, csv_data_buffer, sessVars,
                 timers, tickVars, sessHist, pairHist>>

\* a clear that also drops the session
clear_data_Stopping ==
  /\ pc = "idle"
  /\ pending_ups' = EmptyTable
  /\ csv_data_buffer' = 0
  /\ test_mode' = "IDLE"
  /\ UNCHANGED <<devVars, connVars, data_queue, last_test_mode,
                 test_current_round, test_round_pairs, test_delta_values,
                 test_latched_cmd, scan_step, scan_results,
                 test_target_rounds, test_target_pairs_per_round, btn_start,
                 timers, tickVars, tx_last, sessHist, pairHist>>

clear_data ==
  /\ pc = "idle"
  /\ pending_ups' = EmptyTable
  /\ csv_data_buffer' = 0
  /\ UNCHANGED <<devVars, connVars, data_queue, sessVars, timers, tickVars, tx_last,
                 sessHist, pairHist>>

(***************************************************************************)
(* Session start and stop                                                  *)
(***************************************************************************)
\* _init_test_params returns True
ParamsOk(rounds, pulses) == is_connected /\ ~(rounds <= 0 \/ pulses <= 0)

\* the part of a start that _init_test_params performs
InitTestParams(rounds, pulses) ==
  IF ~is_connected
    THEN UNCHANGED <<test_target_rounds, test_target_pairs_per_round,
                     btn_start, csv_data_buffer>>
    ELSE /\ test_target_rounds' = rounds
         /\ test_target_pairs_per_round' = pulses
         /\ IF rounds <= 0 \/ pulses <= 0
              THEN UNCHANGED <<btn_start, csv_data_buffer>>
              ELSE /\ btn_start' = "disabled"
                   /\ csv_data_buffer' = 0

\* a start that keeps the samples of the session before
start_auto_test_fixed_Keeping(rounds, pulses, rst_bit, csa_val) ==
  /\ pc = "idle"
  /\ btn_start = "normal"
  /\ InitTestParams(rounds, pulses)
  /\ IF ParamsOk(rounds, pulses)
       THEN /\ test_mode' = "FIXED"
            /\ last_test_mode' = "FIXED"
            /\ test_current_round' = 0
            /\ test_round_pairs' = 0
            /\ test_delta_values' = test_delta_values
            /\ test_latched_cmd' = get_current_cmd_int(rst_bit, csa_val)
            /\ tx_last' = test_latched_cmd'
            /\ dev_left' = Triggered
            /\ n_issued' = 1
            /\ sess_clean' = (timers = <<>>)
            /\ sess_done' = FALSE
       ELSE UNCHANGED <<test_mode, last_test_mode, test_current_round,
                        test_round_pairs, test_delta_values, test_latched_cmd,
                        tx_last, dev_left, sessHist>>
  /\ UNCHANGED <<n_put, dev_k, otherVars, connVars, data_queue, pending_ups, scan_step, scan_results,
                 timers, tickVars, last_evt>>
  /\ up_hist' = HistAged(ParamsOk(rounds, pulses))

start_auto_test_fixed(rounds, pulses, rst_bit, csa_val) ==
  /\ pc = "idle"
  /\ btn_start = "normal"
  /\ InitTestParams(rounds, pulses)
  /\ IF ParamsOk(rounds, pulses)
       THEN /\ test_mode' = "FIXED"
            /\ last_test_mode' = "FIXED"
            /\ test_current_round' = 0
            /\ test_round_pairs' = 0
            /\ test_delta_values' = <<>>
            /\ test_latched_cmd' = get_current_cmd_int(rst_bit, csa_val)
            /\ tx_last' = test_latched_cmd'
            /\ dev_left' = Triggered
            /\ n_issued' = 1
            /\ sess_clean' = (timers = <<>>)
            /\ sess_done' = FALSE
       ELSE UNCHANGED <<test_mode, last_test_mode, test_current_round,
                        test_round_pairs, test_delta_values, test_latched_cmd,
                        tx_last, dev_left, sessHist>>
  /\ UNCHANGED <<n_put, dev_k, otherVars, connVars, data_queue, pending_ups, scan_step, scan_results,
                 timers, tickVars, last_evt>>
  /\ up_hist' = HistAged(ParamsOk(rounds, pulses))

\* a start that keeps the per-step samples of the session before
start_scan_test_Keeping(rounds, pulses, rst_bit) ==
  /\ pc = "idle"
  /\ btn_start = "normal"
  /\ InitTestParams(rounds, pulses)
  /\ IF ParamsOk(rounds, pulses)
       THEN /\ test_mode' = "SCAN"
            /\ last_test_mode' = "SCAN"
            /\ test_current_round' = 0
            /\ test_round_pairs' = 0
            /\ scan_step' = 0
            /\ scan_results' = scan_results
            /\ test_latched_cmd' = ScanStepCmd(rst_bit, 0)
            /\ tx_last' = test_latched_cmd'
            /\ dev_left' = Triggered
            /\ n_issued' = 1
            /\ sess_clean' = (timers = <<>>)
            /\ sess_done' = FALSE
       ELSE UNCHANGED <<test_mode, last_test_mode, test_current_round,
                        test_round_pairs, scan_step, scan_results,
                        test_latched_cmd, tx_last, dev_left, sessHist>>
  /\ UNCHANGED <<n_put, dev_k, otherVars, connVars, data_queue, pending_ups, test_delta_values,
                 timers, tickVars, last_evt>>
  /\ up_hist' = HistAged(ParamsOk(rounds, pulses))

start_scan_test(rounds, pulses, rst_bit) ==
  /\ pc = "idle"
  /\ btn_start = "normal"
  /\ InitTestParams(rounds, pulses)
  /\ IF ParamsOk(rounds, pulses)
       THEN /\ test_mode' = "SCAN"
            /\ last_test_mode' = "SCAN"
            /\ test_current_round' = 0
            /\ test_round_pairs' = 0
            /\ scan_step' = 0
            /\ scan_results' = [k \in 0 .. 5 |-> <<>>]
            /\ test_latched_cmd' = ScanStepCmd(rst_bit, 0)
            /\ tx_last' = test_latched_cmd'
            /\ dev_left' = Triggered
            /\ n_issued' = 1
            /\ sess_clean' = (timers = <<>>)
            /\ sess_done' = FALSE
       ELSE UNCHANGED <<test_mode, last_test_mode, test_current_round,
                        test_round_pairs, scan_step, scan_results,
                        test_latched_cmd, tx_last, dev_left, sessHist>>
  /\ UNCHANGED <<n_put, dev_k, otherVars, connVars, data_queue, pending_ups, test_delta_values,
                 timers, tickVars, last_evt>>
  /\ up_hist' = HistAged(ParamsOk(rounds, pulses))

\* a stop that also throws the collected samples away
stop_auto_test_Clearing ==
  /\ pc = "idle"
  /\ IF test_mode = "IDLE"
       THEN UNCHANGED <<test_mode, btn_start, test_delta_values, scan_results>>
       ELSE /\ test_mode' = "IDLE"
            /\ btn_start' = "normal"
            /\ test_delta_values' = <<>>
            /\ scan_results' = [k \in 0 .. 5 |-> <<>>]
  /\ UNCHANGED <<devVars, connVars, data_queue, pending_ups, csv_data_buffer,
                 last_test_mode, test_current_round, test_round_pairs,
                 test_latched_cmd, scan_step,
                 test_target_rounds, test_target_pairs_per_round,
                 timers, tickVars, tx_last, sessHist, pairHist>>

stop_auto_test ==
  /\ pc = "idle"
  /\ IF test_mode = "IDLE"
       THEN UNCHANGED <<test_mode, btn_start>>
       ELSE /\ test_mode' = "IDLE"
            /\ btn_start' = "normal"
  /\ UNCHANGED <<devVars, connVars, data_queue, pending_ups, csv_data_buffer,
                 last_test_mode, test_current_round, test_round_pairs,
                 test_delta_values, test_latched_cmd, scan_step, scan_results,
                 test_target_rounds, test_target_pairs_per_round,
                 timers, tickVars, tx_last, sessHist, pairHist>>

(***************************************************************************)
(* Deferred calls registered with root.after                               *)
(***************************************************************************)

\* the deferred send run without waiting for the callback to return
TimerSend_Inside(i) ==
  /\ i \in 1 .. Len(timers)
  /\ timers[i] = "send"
  /\ timers' = RemoveAt(timers, i)
  /\ tx_last' = Written(test_latched_cmd)
  /\ dev_left' = Triggered
  /\ n_issued' = IF is_connected THEN n_issued + 1 ELSE n_issued
  /\ UNCHANGED <<n_put, dev_k, otherVars, connVars, data_queue, pending_ups, csv_data_buffer, sessVars,
                 tickVars, sess_clean, sess_done, pairHist>>

\* lambda: self.send_pixel_cmd(silent=True, cmd_val=self.test_latched_cmd)
TimerSend(i) ==
  /\ pc = "idle"
  /\ i \in 1 .. Len(timers)
  /\ timers[i] = "send"
  /\ timers' = RemoveAt(timers, i)
  /\ tx_last' = Written(test_latched_cmd)
  /\ dev_left' = Triggered
  /\ n_issued' = IF is_connected THEN n_issued + 1 ELSE n_issued
  /\ UNCHANGED <<n_put, dev_k, otherVars, connVars, data_queue, pending_ups, csv_data_buffer, sessVars,
                 tickVars, sess_clean, sess_done, pairHist>>

\* a step call that latches the step command and never writes it
TimerStep_Unsent(i, rst_bit) ==
  /\ pc = "idle"
  /\ i \in 1 .. Len(timers)
  /\ timers[i] = "step"
  /\ timers' = RemoveAt(timers, i)
  /\ IF test_mode # "SCAN"
       THEN UNCHANGED <<test_latched_cmd, tx_last, n_issued, dev_left>>
       ELSE /\ test_latched_cmd' = ScanStepCmd(rst_bit, scan_step)
            /\ tx_last' = tx_last
            /\ dev_left' = dev_left
            /\ n_issued' = n_issued
  /\ UNCHANGED <<n_put, dev_k, otherVars, connVars, data_queue, pending_ups, csv_data_buffer,
                 test_mode, last_test_mode, test_current_round,
                 test_round_pairs, test_delta_values, scan_step, scan_results,
                 test_target_rounds, test_target_pairs_per_round, btn_start,
                 tickVars, sess_clean, sess_done, pairHist>>

\* run_scan_step fired by root.after(50, self.run_scan_step)
TimerStep(i, rst_bit) ==
  /\ pc = "idle"
  /\ i \in 1 .. Len(timers)
  /\ timers[i] = "step"
  /\ timers' = RemoveAt(timers, i)
  /\ IF test_mode # "SCAN"
       THEN UNCHANGED <<test_latched_cmd, tx_last, n_issued, dev_left>>
       ELSE /\ test_latched_cmd' = ScanStepCmd(rst_bit, scan_step)
            /\ tx_last' = Written(test_latched_cmd')
            /\ dev_left' = Triggered
            /\ n_issued' = IF is_connected THEN n_issued + 1 ELSE n_issued
  /\ UNCHANGED <<n_put, dev_k, otherVars, connVars, data_queue, pending_ups, csv_data_buffer,
                 test_mode, last_test_mode, test_current_round,
                 test_round_pairs, test_delta_values, scan_step, scan_results,
                 test_target_rounds, test_target_pairs_per_round, btn_start,
                 tickVars, sess_clean, sess_done, pairHist>>

(***************************************************************************)
(* update_ui_from_queue: one timer callback, one packet per step           *)
(***************************************************************************)
TickLimit(mode) == IF mode # "IDLE" THEN 500 ELSE 100

\* the callback starts; deferred calls registered by the previous callback
\* are due before it
TickBegin ==
  /\ pc = "idle"
  /\ timers = <<>>
  /\ pc' = "tick"
  /\ processed' = 0
  /\ limit' = TickLimit(test_mode)
  /\ UNCHANGED <<devVars, connVars, data_queue, pending_ups, csv_data_buffer, sessVars,
                 timers, tx_last, sessHist, pairHist>>

\* the body of the while loop for the packet at the head of the queue
TickStep ==
  /\ pc = "tick"
  /\ data_queue # <<>>
  /\ processed < limit
  /\ LET raw_int   == Head(data_queue)
         pkt       == parse_packet(raw_int)
         matched   == Matched(pending_ups, pkt)
         up_pkt    == IF matched THEN pending_ups[pkt.id] ELSE NoPkt
         c_diff    == CoarseDiff(pkt.coarse, up_pkt.coarse)
         f_diff    == FineDiff(pkt.fine, up_pkt.fine)
         dt_ps_val == IF matched THEN DeltaPs(c_diff, f_diff) ELSE NoDelta
         accept    == Accepted(test_mode, matched)
         pairs1    == test_round_pairs + 1
         roundEnd  == accept /\ RoundComplete(pairs1, test_target_pairs_per_round)
         round1    == test_current_round + 1
         reissue   == roundEnd /\ MoreRounds(round1, test_target_rounds)
         lastRound == roundEnd /\ ~MoreRounds(round1, test_target_rounds)
         step1     == scan_step + 1
         nextStep  == lastRound /\ test_mode = "SCAN" /\ MoreSteps(step1)
         finish    == lastRound /\ (test_mode = "FIXED"
                                    \/ (test_mode = "SCAN" /\ ~MoreSteps(step1)))
         h         == HistOf(pkt.id)
     IN /\ data_queue' = Tail(data_queue)
        /\ processed' = processed + 1
        /\ csv_data_buffer' = csv_data_buffer + 1
        /\ pending_ups' =
             IF pkt.type = "UP" THEN PendingInsert(pending_ups, pkt)
             ELSE IF matched THEN PendingPop(pending_ups, pkt.id)
             ELSE pending_ups
        /\ test_delta_values' =
             IF accept /\ test_mode = "FIXED"
               THEN Append(test_delta_values, dt_ps_val)
               ELSE test_delta_values
        /\ scan_results' =
             IF accept /\ test_mode = "SCAN"
               THEN [scan_results EXCEPT ![scan_step] = Append(@, dt_ps_val)]
               ELSE scan_results
        /\ test_round_pairs' =
             IF roundEnd THEN 0 ELSE IF accept THEN pairs1 ELSE test_round_pairs
        /\ test_current_round' =
             IF nextStep THEN 0 ELSE IF roundEnd THEN round1
             ELSE test_current_round
        /\ scan_step' =
             IF lastRound /\ test_mode = "SCAN" THEN step1 ELSE scan_step
        /\ timers' =
             IF reissue THEN Append(timers, "send")
             ELSE IF nextStep THEN Append(timers, "step")
             ELSE timers
        \* finish_test
        /\ test_mode' = IF finish THEN "IDLE" ELSE test_mode
        /\ btn_start' = IF finish THEN "normal" ELSE btn_start
        /\ sess_done' = IF finish THEN TRUE ELSE sess_done
        \* history
        /\ up_hist' =
             IF pkt.type = "UP"
               THEN HistSet(pkt.id, [latest |-> pkt, avail |-> TRUE,
                                     lost |-> IF h.avail THEN h.latest ELSE NoPkt,
                                     old |-> FALSE])
             ELSE IF matched
               THEN HistSet(pkt.id, [latest |-> h.latest, avail |-> FALSE,
                                     lost |-> NoPkt, old |-> h.old])
             ELSE up_hist
        /\ last_evt' =
             IF matched
               THEN [kind |-> "pair", pkt |-> pkt, up |-> up_pkt,
                     c_diff |-> c_diff, f_diff |-> f_diff, dt |-> dt_ps_val,
                     mode |-> test_mode, step |-> scan_step, hist |-> h]
               ELSE [kind |-> IF pkt.type = "DOWN" THEN "orphan" ELSE pkt.type,
                     pkt |-> pkt, mode |-> test_mode, hist |-> h]
  /\ UNCHANGED <<devVars, connVars, last_test_mode, test_latched_cmd,
                 test_target_rounds, test_target_pairs_per_round,
                 pc, limit, tx_last, n_issued, sess_clean>>

\* the while loop ends and the callback re-arms itself
TickEnd ==
  /\ pc = "tick"
  /\ data_queue = <<>> \/ ~(processed < limit)
  /\ pc' = "idle"
  /\ processed' = 0
  /\ limit' = 0
  /\ last_evt' = NoEvt
  /\ UNCHANGED <<devVars, connVars, data_queue, pending_ups, csv_data_buffer, sessVars,
                 timers, tx_last, sessHist, up_hist>>

(***************************************************************************)
(* Specifications of the GUI program                                       *)
(***************************************************************************)
\* inputs of the sessions started in the specifications below
RoundsOk == 1 .. MaxRounds
PulsesOk == 1 .. MaxPulses

\* pairing: every kind of telemetry word, short runs
Next ==
  \/ toggle_connection
  \/ ReaderExit
  \/ \E w \in WordsPair : WirePut(w, CapPair)
  \/ clear_data
  \/ \E R \in RoundsOk, P \in PulsesOk : start_auto_test_fixed(R, P, 0, 1)
  \/ \E R \in RoundsOk, P \in PulsesOk : start_scan_test(R, P, 0)
  \/ stop_auto_test
  \/ \E i \in 1 .. Len(timers) : TimerSend(i)
  \/ \E i \in 1 .. Len(timers) : TimerStep(i, 0)
  \/ TickBegin
  \/ TickStep
  \/ TickEnd

Spec == InitOpen /\ [][Next]_vars

\* FIXED sessions over matched pairs, long enough to finish every session
NextFixed ==
  \/ toggle_connection
  \/ ReaderExit
  \/ \E w \in WordsSeq : WirePut(w, CapFixed)
  \/ \E R \in RoundsOk, P \in PulsesOk : start_auto_test_fixed(R, P, 0, 1)
  \/ stop_auto_test
  \/ \E i \in 1 .. Len(timers) : TimerSend(i)
  \/ TickBegin
  \/ TickStep
  \/ TickEnd

SpecFixed == InitOpen /\ [][NextFixed]_vars

\* every operation of the window: the pairing engine with manual sends
NextModes ==
  \/ Next
  \/ send_pixel_cmd(0, 1)
  \/ send_recalibrate

SpecModes == InitOpen /\ [][NextModes]_vars

\* SCAN sessions against the device
NextScan ==
  \/ toggle_connection
  \/ ReaderExit
  \/ DevicePut
  \/ \E R \in RoundsOk, P \in PulsesOk : start_scan_test(R, P, 0)
  \/ \E i \in 1 .. Len(timers) : TimerSend(i)
  \/ \E i \in 1 .. Len(timers) : TimerStep(i, 0)
  \/ TickBegin
  \/ TickStep
  \/ TickEnd

SpecScan == InitDevice /\ [][NextScan]_vars

\* sessions on a line that stays connected, against a device that answers
\* every command with as many pulses as the session asks for per round
NextLive ==
  \/ ~is_connected /\ toggle_connection
  \/ DevicePut
  \/ \E R \in RoundsOk : start_auto_test_fixed(R, dev_k, 0, 1)
  \/ \E R \in RoundsOk : start_scan_test(R, dev_k, 0)
  \/ \E i \in 1 .. Len(timers) : TimerSend(i)
  \/ \E i \in 1 .. Len(timers) : TimerStep(i, 0)
  \/ TickBegin
  \/ TickStep
  \/ TickEnd

\* the three things the program schedules by itself
ReaderRuns == DevicePut
ConsumerRuns == TickBegin \/ TickStep \/ TickEnd
DeferredRuns ==
  \E i \in 1 .. Len(timers) : TimerSend(i) \/ TimerStep(i, 0)

\* the reader thread, the 50 ms consumer callback and the root.after calls
\* run whenever they are due.  The reader is its own thread and is held
\* back by no callback; here it hands a word over only between two
\* callbacks, so its fairness is the strong one.
SpecLive ==
  /\ InitDevice
  /\ [][NextLive]_vars
  /\ SF_dev_left(ReaderRuns)
  /\ WF_<<pc, processed>>(ConsumerRuns)
  /\ WF_timers(DeferredRuns)

\* what the two entry boxes of a start can hold: valid and invalid numbers
RoundsIn == {-1, 0} \cup RoundsOk
PulsesIn == {0} \cup PulsesOk

\* starts asked for in every situation: connected or not, valid or invalid
\* numbers, with samples of an earlier session in place
NextStarts ==
  \/ toggle_connection
  \/ ReaderExit
  \/ \E w \in WordsSeq : WirePut(w, CapPair)
  \/ \E R \in RoundsIn, P \in PulsesIn : start_auto_test_fixed(R, P, 0, 1)
  \/ \E R \in RoundsIn, P \in PulsesIn : start_scan_test(R, P, 0)
  \/ stop_auto_test
  \/ \E i \in 1 .. Len(timers) : TimerSend(i)
  \/ \E i \in 1 .. Len(timers) : TimerStep(i, 0)
  \/ TickBegin
  \/ TickStep
  \/ TickEnd

SpecStarts == InitOpen /\ [][NextStarts]_vars

\* FIXED and SCAN sessions against the device on a line that stays connected,
\* stopped and restarted at will
NextSessions ==
  \/ ~is_connected /\ toggle_connection
  \/ DevicePut
  \/ \E R \in RoundsOk, P \in PulsesOk : start_auto_test_fixed(R, P, 0, 1)
  \/ \E R \in RoundsOk, P \in PulsesOk : start_scan_test(R, P, 0)
  \/ stop_auto_test
  \/ \E i \in 1 .. Len(timers) : TimerSend(i)
  \/ \E i \in 1 .. Len(timers) : TimerStep(i, 0)
  \/ TickBegin
  \/ TickStep
  \/ TickEnd

SpecSessions == InitDevice /\ [][NextSessions]_vars

(***************************************************************************)
(* TDCUartScanner.receive_data (scripts/tdc_uart_scan.py)                  *)
(***************************************************************************)
MaxCliWords == 2
MaxExpected == 2

\* the bytes of a word, most significant byte first
Pack_BigEndian(w) == <<w.hi \div 256, w.hi % 256, w.lo \div 256, w.lo % 256>>

\* struct.pack('<I', w) and struct.unpack('<I', b)[0]
Pack(w) == <<w.lo % 256, w.lo \div 256, w.hi % 256, w.hi \div 256>>
Unpack(b) == [lo |-> b[1] + 256 * b[2], hi |-> b[3] + 256 * b[4]]

\* send_pixel_cmd: packet = struct.pack('<I', cmd); self.ser.write(packet)
TxBytes == IF tx_last = NoWord THEN <<>> ELSE Pack(tx_last)

\* the receive layout of the scanner:
\*   [31:30] type, [29:22] id, [21:9] fine, [8] flag, [7:0] coarse
CliParse(value) ==
  [type   |-> (value.hi \div Pow2(14)) % 4,
   id     |-> (value.hi \div Pow2(6)) % 256,
   fine   |-> ((value.hi % 64) * 128 + value.lo \div 512) % 8192,
   coarse |-> value.lo % 256,
   flag   |-> (value.lo \div 256) % 2,
   raw    |-> value]

MkWordA(t, id, fine, flag, coarse) ==
  [hi |-> t * Pow2(14) + id * Pow2(6) + fine \div 128,
   lo |-> (fine % 128) * 512 + flag * 256 + coarse]

CliWords == { MkWordA(T_UP, 5, 100, 1, 20), MkWordA(T_DOWN, 5, 80, 0, 5),
              MkWordA(T_CMD, 1, 2, 0, 3) }

RECURSIVE Flatten(_)
Flatten(ws) == IF ws = <<>> THEN <<>> ELSE Pack(Head(ws)) \o Flatten(Tail(ws))

CliStreams ==
  { Flatten(ws) : ws \in UNION { [1 .. n -> CliWords] : n \in 1 .. MaxCliWords } }

\* while len(buffer) >= 4: the words taken off the front of the buffer
RECURSIVE FrameLoop(_)
FrameLoop(buffer) ==
  IF Len(buffer) >= 4
    THEN <<Unpack(SubSeq(buffer, 1, 4))>> \o FrameLoop(SubSeq(buffer, 5, Len(buffer)))
    ELSE <<>>

\* what the same loop leaves in the buffer
Leftover(buffer) ==
  SubSeq(buffer, Len(buffer) - (Len(buffer) % 4) + 1, Len(buffer))

\* if data_type == 0b11: continue
IsEcho(value) == CliParse(value).type = 3

\* the records the framing loop appends for the words it decodes
RECURSIVE Records(_)
Records(values) ==
  IF values = <<>> THEN <<>>
  ELSE IF IsEcho(Head(values)) THEN Records(Tail(values))
  ELSE <<CliParse(Head(values))>> \o Records(Tail(values))

guiAll == <<connVars, data_queue, pending_ups, csv_data_buffer, sessVars,
            timers, tickVars, tx_last, sessHist, pairHist,
            n_put, dev_k, dev_left>>

InitCli ==
  /\ GuiOff
  /\ ProbeOff
  /\ RxOff
  /\ SendOff /\ AnalysisOff
  /\ cli_pc = "idle"
  /\ cli_wire \in CliStreams
  /\ cli_in = <<>>
  /\ cli_buffer = <<>>
  /\ cli_data_list = <<>>
  /\ cli_expected = 0
  /\ cli_read = <<>>
  /\ cli_frames = <<>>

\* a byte reaches the port
CliArrive ==
  /\ cli_pc # "off"
  /\ cli_wire # <<>>
  /\ cli_in' = Append(cli_in, Head(cli_wire))
  /\ cli_wire' = Tail(cli_wire)
  /\ UNCHANGED <<guiAll, probe, rxVars, cli_send, analysis, cli_pc, cli_buffer, cli_data_list,
                 cli_expected, cli_read, cli_frames>>

\* receive_data(expected_count) is entered
receive_data(expected_count) ==
  /\ cli_pc = "idle"
  /\ cli_pc' = "loop"
  /\ cli_expected' = expected_count
  /\ cli_data_list' = <<>>
  /\ cli_buffer' = <<>>
  /\ cli_read' = <<>>
  /\ cli_frames' = <<>>
  /\ UNCHANGED <<guiAll, probe, rxVars, cli_send, analysis, cli_wire, cli_in>>

\* one iteration: in_waiting > 0, read it all, then the framing loop
CliReadWaiting ==
  /\ cli_pc = "loop"
  /\ Len(cli_data_list) < cli_expected
  /\ cli_in # <<>>
  /\ LET buffer == cli_buffer \o cli_in
         values == FrameLoop(buffer)
     IN /\ cli_buffer' = Leftover(buffer)
        /\ cli_data_list' = cli_data_list \o Records(values)
        /\ cli_frames' = cli_frames \o values
        /\ cli_read' = cli_read \o cli_in
  /\ cli_in' = <<>>
  /\ UNCHANGED <<guiAll, probe, rxVars, cli_send, analysis, cli_pc, cli_wire, cli_expected>>

\* one iteration: in_waiting = 0, self.serial.read(4) returns the j bytes
\* that arrive before its timeout, they are appended and the loop continues
CliReadBlocking(j) ==
  /\ cli_pc = "loop"
  /\ Len(cli_data_list) < cli_expected
  /\ cli_in = <<>>
  /\ j \in 1 .. 4
  /\ j <= Len(cli_wire)
  /\ cli_buffer' = cli_buffer \o SubSeq(cli_wire, 1, j)
  /\ cli_read' = cli_read \o SubSeq(cli_wire, 1, j)
  /\ cli_wire' = SubSeq(cli_wire, j + 1, Len(cli_wire))
  /\ UNCHANGED <<guiAll, probe, rxVars, cli_send, analysis, cli_pc, cli_in, cli_data_list, cli_expected,
                 cli_frames>>

\* time.time() - start_time > timeout: break
CliTimeout ==
  /\ cli_pc = "loop"
  /\ Len(cli_data_list) < cli_expected
  /\ cli_pc' = "idle"
  /\ UNCHANGED <<guiAll, probe, rxVars, cli_send, analysis, cli_wire, cli_in, cli_buffer, cli_data_list,
                 cli_expected, cli_read, cli_frames>>

\* the while condition fails: return data_list
CliReturn ==
  /\ cli_pc = "loop"
  /\ ~(Len(cli_data_list) < cli_expected)
  /\ cli_pc' = "idle"
  /\ UNCHANGED <<guiAll, probe, rxVars, cli_send, analysis, cli_wire, cli_in, cli_buffer, cli_data_list,
                 cli_expected, cli_read, cli_frames>>

NextCli ==
  \/ CliArrive
  \/ \E e \in 1 .. MaxExpected : receive_data(e)
  \/ CliReadWaiting
  \/ \E j \in 1 .. 4 : CliReadBlocking(j)
  \/ CliTimeout
  \/ CliReturn

SpecCli == InitCli /\ [][NextCli]_vars

\* words for the two receive layouts: every pair of halves whose bits sit at
\* and around the field borders of both layouts, with two mixed patterns
LayoutHalves ==
  {0, 1, 255, 256, 511, 512, 1023, 1024, 2047, 2048, 16383, 16384, 32768,
   23130, 42405, 65535}
LayoutWords == { [hi |-> h, lo |-> l] : h \in LayoutHalves, l \in LayoutHalves }

\* one such word reaches the window, or the scanner waiting for one record
InitLayout ==
  \/ InitOpen
  \/ /\ GuiOff
     /\ ProbeOff
     /\ RxOff
     /\ SendOff
     /\ AnalysisOff
     /\ cli_pc = "idle"
     /\ cli_wire \in { Pack(w) : w \in LayoutWords }
     /\ cli_in = <<>>
     /\ cli_buffer = <<>>
     /\ cli_data_list = <<>>
     /\ cli_expected = 0
     /\ cli_read = <<>>
     /\ cli_frames = <<>>

NextLayout ==
  \/ toggle_connection
  \/ ReaderExit
  \/ \E w \in LayoutWords : WirePut(w, 1)
  \/ TickBegin
  \/ TickStep
  \/ TickEnd
  \/ NextCli

SpecLayout == InitLayout /\ [][NextLayout]_vars

(***************************************************************************)
(* The coarse difference of update_ui_from_queue over the whole 10-bit     *)
(* range of both coarse counters                                           *)
(***************************************************************************)
InitCoarse ==
  /\ GuiOff
  /\ CliOff
  /\ RxOff
  /\ SendOff /\ AnalysisOff
  /\ probe \in { [up |-> u, down |-> 0, c_diff |-> 0, done |-> FALSE] :
                   u \in 0 .. COARSE_MASK }

CoarseApply(down) ==
  /\ ~probe.done
  /\ probe' = [up |-> probe.up, down |-> down,
               c_diff |-> CoarseDiff(down, probe.up), done |-> TRUE]
  /\ UNCHANGED <<guiAll, cliVars, rxVars, cli_send, analysis>>

NextCoarse == \E d \in 0 .. COARSE_MASK : CoarseApply(d)

SpecCoarse == InitCoarse /\ [][NextCoarse]_vars

(***************************************************************************)
(* TDCUartScanner.send_command                                             *)
(***************************************************************************)
\* v & (2^bits - 1), for every integer v
Mask(v, bits) == v % Pow2(bits)

\* the phase masked to seven bits
CmdData_Phase7(cmd_type, scan_mode, channel, phase, pixel_control) ==
  WordOr(WordOr(WordOr(Shl(Mask(cmd_type, 1), 31), Shl(Mask(scan_mode, 1), 30)),
                WordOr(Shl(Mask(channel, 2), 28), Shl(Mask(phase, 7), 20))),
         Shl(Mask(pixel_control, 8), 12))

\* cmd_data = ((cmd_type & 0x1) << 31) | ((scan_mode & 0x1) << 30) |
\*            ((channel & 0x3) << 28) | ((phase & 0xFF) << 20) |
\*            ((pixel_control & 0xFF) << 12)
CmdData(cmd_type, scan_mode, channel, phase, pixel_control) ==
  WordOr(WordOr(WordOr(Shl(Mask(cmd_type, 1), 31), Shl(Mask(scan_mode, 1), 30)),
                WordOr(Shl(Mask(channel, 2), 28), Shl(Mask(phase, 8), 20))),
         Shl(Mask(pixel_control, 8), 12))

\* channel_names[channel] of the four-element list: the indices Python accepts
ChannelNameOk(channel) == channel \in -4 .. 3

\* a call that has its arguments but has not run yet
Call(connected, cmd_type, scan_mode, channel, phase) ==
  [state |-> "called", connected |-> connected, cmd_type |-> cmd_type,
   scan_mode |-> scan_mode, channel |-> channel, phase |-> phase,
   pixel_control |-> 0, sent |-> NoWord, data |-> <<>>, raised |-> None,
   result |-> None]

\* send_command(cmd_type, scan_mode, channel, phase, pixel_control)
send_command(pixel_control) ==
  /\ cli_send.state = "called"
  /\ LET cmd_data == CmdData(cli_send.cmd_type, cli_send.scan_mode,
                             cli_send.channel, cli_send.phase, pixel_control)
         c == [cli_send EXCEPT !.state = "done",
                               !.pixel_control = pixel_control]
     IN cli_send' =
          IF ~cli_send.connected
            THEN [c EXCEPT !.result = "False"]
          ELSE IF ~ChannelNameOk(cli_send.channel)
            THEN [c EXCEPT !.raised = "IndexError"]
          ELSE [c EXCEPT !.sent = cmd_data, !.data = Pack(cmd_data),
                         !.result = "True"]
  /\ UNCHANGED <<guiAll, cliVars, probe, rxVars, analysis>>

\* every tuple of the declared ranges
InitEncode ==
  /\ GuiOff
  /\ CliOff
  /\ ProbeOff
  /\ RxOff
  /\ AnalysisOff
  /\ cli_send \in { Call(TRUE, t, m, c, p) :
                     t \in 0 .. 1, m \in 0 .. 1, c \in 0 .. 3, p \in 0 .. 255 }

NextEncode == \E x \in 0 .. 255 : send_command(x)

SpecEncode == InitEncode /\ [][NextEncode]_vars

\* every way a command word gets onto the line: the GUI against the device,
\* with the reset box either way and no, one or all excitation boxes ticked,
\* or one send_command of the scanner.  The send and recalibrate buttons are
\* pressed on a line whose device stays silent, so that the runs stay finite;
\* what they write does not depend on what has been received.
RstIn == {0, 1}
CsaIn == {0, 1, 63}

NextGuiCmds ==
  \/ toggle_connection
  \/ ReaderExit
  \/ DevicePut
  \/ dev_k = 0 /\ \E rst \in RstIn, csa \in CsaIn : send_pixel_cmd(rst, csa)
  \/ dev_k = 0 /\ send_recalibrate
  \/ \E rst \in RstIn, csa \in CsaIn :
       start_auto_test_fixed(MaxRounds, 1, rst, csa)
  \/ \E rst \in RstIn : start_scan_test(1, 1, rst)
  \/ \E i \in 1 .. Len(timers) : TimerSend(i)
  \/ \E i \in 1 .. Len(timers), rst \in RstIn : TimerStep(i, rst)
  \/ TickBegin
  \/ TickStep
  \/ TickEnd

\* values at and beyond the ends of the declared ranges
TypeIn == {-1, 0, 1, 2, 3}
ChannelIn == {-5, -4, -1, 0, 3, 4, 7}
PhaseIn == {-1, 0, 255, 256, 511}
PixelIn == {-256, -1, 0, 129, 255, 256, 4095}

InitMask ==
  /\ GuiOff
  /\ CliOff
  /\ ProbeOff
  /\ RxOff
  /\ AnalysisOff
  /\ cli_send \in { Call(k, t, m, c, p) :
                     k \in BOOLEAN, t \in TypeIn, m \in TypeIn,
                     c \in ChannelIn, p \in PhaseIn }

NextMask == \E x \in PixelIn : send_command(x)

SpecMask == InitMask /\ [][NextMask]_vars

InitCmds == InitOpen \/ InitDevice \/ InitMask
NextCmds == NextGuiCmds \/ NextMask
SpecCmds == InitCmds /\ [][NextCmds]_vars

\* either program in use: the window with every setting of its seven boxes,
\* or the scanner with the pixel call and the calibration call
MaskIn == 0 .. 63
PixelControl(rst, csa_mask) == rst * 128 + (csa_mask % 64) * 2

InitAgree ==
  \/ InitOpen
  \/ /\ GuiOff
     /\ CliOff
     /\ ProbeOff
     /\ RxOff
     /\ AnalysisOff
     /\ cli_send \in {Call(TRUE, 0, 0, 3, 0), Call(TRUE, 1, 0, 0, 0)}

NextAgree ==
  \/ toggle_connection
  \/ \E rst \in RstIn, csa \in MaskIn : send_pixel_cmd(rst, csa)
  \/ send_recalibrate
  \/ \E rst \in RstIn, csa \in MaskIn : send_command(PixelControl(rst, csa))
  \/ ReaderExit

SpecAgree == InitAgree /\ [][NextAgree]_vars

(***************************************************************************)
(* read_serial_thread byte by byte, with the threads told apart            *)
(***************************************************************************)
MaxReaders == 2
MaxFrames == 2

\* a byte reaches the open port
RxArrive ==
  /\ ser_open
  /\ rx_wire # <<>>
  /\ rx_in' = Append(rx_in, Head(rx_wire))
  /\ rx_wire' = Tail(rx_wire)
  /\ UNCHANGED <<guiAll, cliVars, probe, rx_taken, cli_send, analysis>>

\* one pass of the loop with in_waiting > 0: read it all, frame, put.
\* The puts are taken between callbacks, as in ReaderPut.
ReaderRead(i) ==
  /\ i \in 1 .. Len(readers)
  /\ ~readers[i].stale
  /\ ~stop_thread /\ ser_open
  /\ rx_in # <<>>
  /\ pc = "idle"
  /\ LET buffer == readers[i].buffer \o rx_in
     IN /\ readers' = [readers EXCEPT ![i].buffer = Leftover(buffer)]
        /\ data_queue' = data_queue \o FrameLoop(buffer)
  /\ rx_taken' = rx_taken \o rx_in
  /\ rx_in' = <<>>
  /\ UNCHANGED <<is_connected, ser_open, stop_thread, rx_threads, pending_ups,
                 csv_data_buffer, sessVars, timers, tickVars, tx_last,
                 sessHist, pairHist, n_put, dev_k, dev_left, cliVars, probe,
                 rx_wire, cli_send, analysis>>

\* an access to the port raises (the device is unplugged): except: break
ReaderFail(i) ==
  /\ i \in 1 .. Len(readers)
  /\ ser_open
  /\ rx_threads' = rx_threads - 1
  /\ readers' = RemoveAt(readers, i)
  /\ UNCHANGED <<devVars, is_connected, ser_open, stop_thread, data_queue,
                 pending_ups, csv_data_buffer, sessVars, timers, tickVars,
                 tx_last, sessHist, pairHist>>

LinkStreams ==
  { Flatten(ws) : ws \in UNION { [1 .. n -> WordsSeq] : n \in 1 .. MaxFrames } }

InitLink ==
  /\ InitGui
  /\ dev_k = 0
  /\ CliOff
  /\ ProbeOff
  /\ SendOff /\ AnalysisOff
  /\ rx_wire \in LinkStreams
  /\ rx_in = <<>>
  /\ rx_taken = <<>>

\* the reader threads across connects and disconnects, and the consumer
NextReaders ==
  \/ Toggle(MaxReaders)
  \/ ReaderExit
  \/ RxArrive
  \/ \E i \in 1 .. Len(readers) : ReaderRead(i)
  \/ TickBegin
  \/ TickStep
  \/ TickEnd

SpecReaders == InitLink /\ [][NextReaders]_vars

\* the reader threads keep running: a reader whose loop test fails, or whose
\* port access raises, again and again does leave its loop
SpecReadersLive == SpecReaders /\ SF_vars(ReaderExit)

\* a session, started while a reader runs, on a line that can fail
NextLink ==
  \/ toggle_connection
  \/ ReaderExit
  \/ RxArrive
  \/ \E i \in 1 .. Len(readers) : ReaderRead(i)
  \/ \E i \in 1 .. Len(readers) : ReaderFail(i)
  \/ Len(readers) = 1 /\ \E R \in RoundsOk : start_auto_test_fixed(R, 1, 0, 1)
  \/ stop_auto_test
  \/ \E i \in 1 .. Len(timers) : TimerSend(i)
  \/ TickBegin
  \/ TickStep
  \/ TickEnd

SpecLink == InitLink /\ [][NextLink]_vars

\* the words on the wire in both directions: send_command of the scanner,
\* and one GUI with its reader, its manual sends and its consumer
InitWire == InitLink \/ InitMask

NextWire ==
  \/ Toggle(1)
  \/ ReaderExit
  \/ RxArrive
  \/ \E i \in 1 .. Len(readers) : ReaderRead(i)
  \/ \E rst \in RstIn, csa \in CsaIn : send_pixel_cmd(rst, csa)
  \/ send_recalibrate
  \/ TickBegin
  \/ TickStep
  \/ TickEnd
  \/ NextMask

SpecWire == InitWire /\ [][NextWire]_vars

(***************************************************************************)
(* The analysis windows: show_analysis_window_fixed and                    *)
(* show_analysis_window_scan.  A sample is an integer standing for a float *)
(* number of picoseconds, a quotient is kept as an exact [num, den], the   *)
(* standard deviation by its square; the plots are left out except for the *)
(* divisions they make.                                                    *)
(***************************************************************************)
MaxSamples == 5

RECURSIVE SumOf(_)
SumOf(data) == IF data = <<>> THEN 0 ELSE Head(data) + SumOf(Tail(data))

\* np.mean(data)
np_mean(data) == [num |-> SumOf(data), den |-> Len(data)]

\* the squared deviations from the mean, each scaled by len(data)^2
SqDev(data) ==
  [i \in 1 .. Len(data) |->
     (Len(data) * data[i] - SumOf(data)) * (Len(data) * data[i] - SumOf(data))]

\* the squared deviations divided by len(data) - 1
np_var_Sample(data) ==
  [num |-> SumOf(SqDev(data)),
   den |-> Len(data) * Len(data) * (Len(data) - 1)]

\* np.var(data): mean(abs(x - x.mean()) ** 2), ddof = 0
np_var(data) ==
  [num |-> SumOf(SqDev(data)), den |-> Len(data) * Len(data) * Len(data)]

\* np.min(data), np.max(data)
np_min(data) == CHOOSE x \in { data[i] : i \in 1 .. Len(data) } :
                  \A i \in 1 .. Len(data) : x <= data[i]
np_max(data) == CHOOSE x \in { data[i] : i \in 1 .. Len(data) } :
                  \A i \in 1 .. Len(data) : x >= data[i]

\* the figures of one sample list; std_sq is the square of np.std(data);
\* fit: the Gaussian curve is drawn, dividing by std_val (if std_val > 0)
Summary(data) ==
  [samples |-> Len(data), mean |-> np_mean(data), var |-> np_var(data),
   std_sq |-> np_var(data), min |-> np_min(data), max |-> np_max(data),
   fit |-> np_var(data).num > 0]

\* what a summary divides by: len(data), and std_val where the curve is drawn
Divisors(data) ==
  {Len(data)} \cup (IF np_var(data).num > 0 THEN {np_var(data).num} ELSE {})

NoReport == [kind |-> "none", text |-> "", rows |-> <<>>, divs |-> {}]
Message(text) == [NoReport EXCEPT !.kind = "message", !.text = text]

\* a FIXED analysis that goes on to the mean of whatever list it is given
FixedReport_Unguarded(libs, data) ==
  [kind |-> "window", text |-> "",
   rows |-> <<[samples |-> Len(data), mean |-> np_mean(data)]>>,
   divs |-> {Len(data)}]

FixedReport(libs, data) ==
  IF ~libs \/ data = <<>>
    THEN Message("no data")
    ELSE [kind |-> "window", text |-> "", rows |-> <<Summary(data)>>,
          divs |-> Divisors(data)]

\* one line of the statistics table of the SCAN analysis
NaRow(i) == [step |-> i, samples |-> 0, na |-> TRUE]
ScanRow(i, data) ==
  IF Len(data) = 0
    THEN NaRow(i)
    ELSE [step |-> i, na |-> FALSE] @@ Summary(data)

ScanReport(libs, results) ==
  IF ~libs THEN NoReport
  ELSE IF \A i \in 1 .. 6 : results[i] = <<>>
    THEN Message("no valid data")
  ELSE [kind |-> "window", text |-> "",
        rows |-> [i \in 1 .. 6 |-> ScanRow(i - 1, results[i])],
        divs |-> UNION { Divisors(results[i]) :
                           i \in { j \in 1 .. 6 : results[j] # <<>> } }]

Ask(mode, libs, fixed, scan) ==
  [state |-> "asked", mode |-> mode, libs |-> libs, fixed |-> fixed,
   scan |-> scan, report |-> NoReport]

show_analysis_window_fixed ==
  /\ analysis.state = "asked"
  /\ analysis.mode = "FIXED"
  /\ analysis' = [analysis EXCEPT
                    !.state = "shown",
                    !.report = FixedReport(analysis.libs, analysis.fixed)]
  /\ UNCHANGED <<guiAll, cliVars, probe, rxVars, cli_send>>

show_analysis_window_scan ==
  /\ analysis.state = "asked"
  /\ analysis.mode = "SCAN"
  /\ analysis' = [analysis EXCEPT
                    !.state = "shown",
                    !.report = ScanReport(analysis.libs, analysis.scan)]
  /\ UNCHANGED <<guiAll, cliVars, probe, rxVars, cli_send>>

\* sample values, negative ones included, and the lists of up to MaxSamples
SampleIn == {-2, 1, 2, 3, 4, 5}
SamplesIn == UNION { [1 .. n -> SampleIn] : n \in 0 .. MaxSamples }
StepIn == { <<>>, <<3>>, <<1, 5>>, <<-2, 4, 4>> }
NoScan == [i \in 1 .. 6 |-> <<>>]

InitStats ==
  /\ GuiOff
  /\ CliOff
  /\ ProbeOff
  /\ RxOff
  /\ SendOff
  /\ analysis \in
       { Ask("FIXED", libs, data, NoScan) :
           libs \in BOOLEAN, data \in SamplesIn }
       \cup { Ask("SCAN", libs, <<>>, results) :
                libs \in BOOLEAN, results \in [1 .. 6 -> StepIn] }

NextStats ==
  \/ show_analysis_window_fixed
  \/ show_analysis_window_scan

SpecStats == InitStats /\ [][NextStats]_vars

(***************************************************************************)
(* Properties                                                              *)
(***************************************************************************)
Min(a, b) == IF a <= b THEN a ELSE b
Last(q) == q[Len(q)]

C2_State ==
  LET N == test_target_rounds * test_target_pairs_per_round
  IN /\ test_mode = "SCAN" =>
          /\ scan_step \in 0 .. 5
          /\ \A j \in 0 .. 5 :
               /\ j < scan_step => Len(scan_results[j]) = N
               /\ j = scan_step => Len(scan_results[j]) < N
               /\ j > scan_step => Len(scan_results[j]) = 0
     /\ (last_test_mode = "SCAN" /\ sess_done) =>
          /\ scan_step = 6
          /\ \A j \in 0 .. 5 : Len(scan_results[j]) = N

\* C2: in a SCAN session that is not stopped the step only ever moves from k
\* to k + 1 (starting at 0), the session leaves SCAN only on the move from 5
\* to 6, the steps below the current one hold rounds * pulses samples, the
\* current one fewer and the later ones none, and when the session has
\* finished all six sample sets hold rounds * pulses samples.
C2_ScanSteps ==
  [][ /\ C2_State'
      /\ scan_step' # scan_step =>
           \/ scan_step' = scan_step + 1 /\ test_mode = "SCAN"
           \/ scan_step' = 0 /\ test_mode = "IDLE" /\ test_mode' = "SCAN"
      /\ (test_mode = "SCAN" /\ test_mode' = "IDLE") =>
           (scan_step = 5 /\ scan_step' = 6) ]_vars

C2_Witness ==
  /\ last_test_mode = "SCAN" /\ sess_done /\ scan_step = 6
  /\ test_target_rounds = 2 /\ test_target_pairs_per_round = 2
  /\ \A j \in 0 .. 5 : Len(scan_results[j]) = 4

\* C3: the UP of every emitted pair is the latest UP of that id consumed
\* before the DOWN; an UP that was displaced while pending is not in the pair.
C3_PairsLatestUp ==
  last_evt.kind = "pair" =>
    /\ last_evt.up = last_evt.hist.latest
    /\ (last_evt.hist.lost # last_evt.hist.latest
          => last_evt.up # last_evt.hist.lost)

C3_Witness ==
  /\ last_evt.kind = "pair"
  /\ last_evt.hist.lost.type = "UP"
  /\ last_evt.hist.lost # last_evt.up

\* C4: an emitted pair joins an UP and a DOWN of the same id, the UP is the
\* one consumed earlier for that id and it had not been paired before; a DOWN
\* whose id's UP is already paired emits nothing.
C4_PairOnce ==
  /\ last_evt.kind = "pair" =>
       /\ last_evt.up.type = "UP" /\ last_evt.pkt.type = "DOWN"
       /\ last_evt.up.id = last_evt.pkt.id
       /\ last_evt.hist.avail
       /\ last_evt.hist.latest.id = last_evt.pkt.id
  /\ (last_evt.kind \in {"pair", "orphan"} /\ ~last_evt.hist.avail)
       => last_evt.kind = "orphan"

C4_Witness ==
  /\ last_evt.kind = "orphan"
  /\ last_evt.hist.latest.type = "UP"
  /\ ~last_evt.hist.avail

\* C5: for all coarse counts 0..1023 the coarse difference lies in -511..512,
\* is congruent to down - up modulo 1024, and is raw - 1024 for a raw
\* difference above 512 and raw otherwise.
C5_Wraparound ==
  probe.done =>
    LET raw == (probe.down - probe.up + 1024) % 1024
    IN /\ probe.c_diff \in -511 .. 512
       /\ (probe.c_diff - (probe.down - probe.up)) % 1024 = 0
       /\ raw > 512 => probe.c_diff = raw - 1024
       /\ raw <= 512 => probe.c_diff = raw

C5_Witness ==
  /\ probe.done
  /\ (probe.down - probe.up + 1024) % 1024 = 600
  /\ probe.c_diff = -424

\* C6: for every pair fine_diff = down.fine - up.fine, delta_ps =
\* coarse_diff * CLK_PERIOD_PS - fine_diff with the wrapped coarse difference,
\* and the value appended to the active sample set is that delta_ps.
C6_DeltaRecorded ==
  last_evt.kind = "pair" =>
    /\ last_evt.f_diff = last_evt.pkt.fine - last_evt.up.fine
    /\ last_evt.c_diff \in -511 .. 512
    /\ (last_evt.c_diff - (last_evt.pkt.coarse - last_evt.up.coarse)) % 1024 = 0
    /\ last_evt.dt.den = CLK_PERIOD_PS.den
    /\ last_evt.dt.num = last_evt.c_diff * CLK_PERIOD_PS.num
                          - last_evt.f_diff * CLK_PERIOD_PS.den
    /\ last_evt.mode = "FIXED" => Last(test_delta_values) = last_evt.dt
    /\ last_evt.mode = "SCAN" => Last(scan_results[last_evt.step]) = last_evt.dt

C6_Witness ==
  /\ last_evt.kind = "pair"
  /\ last_evt.mode = "SCAN"
  /\ last_evt.c_diff = -5
  /\ last_evt.f_diff = 20

C7_Case ==
  /\ last_evt.kind = "pair"
  /\ last_evt.up.id = 5 /\ last_evt.up.coarse = 1020 /\ last_evt.up.fine = 100
  /\ last_evt.pkt.id = 5 /\ last_evt.pkt.coarse = 5 /\ last_evt.pkt.fine = 80

OrphanNext ==
  /\ pc = "tick" /\ data_queue # <<>> /\ processed < limit
  /\ (Head(data_queue).hi \div 16384) % 4 = 1
  /\ (Head(data_queue).hi \div 256) % 64 \notin DOMAIN pending_ups

\* C8: handling a DOWN whose id has no pending UP emits no pair, leaves the
\* pending table, the sample sets, the counters, the mode and the deferred
\* calls as they were, and the loop goes on with the next packet.
C8_OrphanDown ==
  [][ (OrphanNext /\ processed' = processed + 1) =>
        /\ last_evt'.kind # "pair"
        /\ pending_ups' = pending_ups
        /\ test_delta_values' = test_delta_values
        /\ scan_results' = scan_results
        /\ test_current_round' = test_current_round
        /\ test_round_pairs' = test_round_pairs
        /\ scan_step' = scan_step
        /\ test_mode' = test_mode
        /\ timers' = timers
        /\ data_queue' = Tail(data_queue)
        /\ pc' = "tick" ]_vars

C8_Witness ==
  /\ last_evt.kind = "orphan"
  /\ last_evt.mode = "FIXED"
  /\ last_evt.pkt.id = 1
  /\ 5 \in DOMAIN pending_ups

\* the packet the loop body takes next is an INFO word or a command echo
EchoNext ==
  /\ pc = "tick" /\ data_queue # <<>> /\ processed < limit
  /\ (Head(data_queue).hi \div 16384) % 4 \in {2, 3}

\* the words of frames whose two top bits are not both set
RECURSIVE NonEcho(_)
NonEcho(values) ==
  IF values = <<>> THEN <<>>
  ELSE IF Head(values).hi \div 16384 = 3 THEN NonEcho(Tail(values))
  ELSE <<Head(values)>> \o NonEcho(Tail(values))

CliNoEcho ==
  /\ \A i \in 1 .. Len(cli_data_list) : cli_data_list[i].raw.hi \div 16384 # 3
  /\ Len(cli_data_list) = Len(NonEcho(cli_frames))
  /\ \A i \in 1 .. Len(cli_data_list) :
       cli_data_list[i].raw = NonEcho(cli_frames)[i]

\* C9: in the GUI an INFO or CMD word emits no pair and leaves the pending
\* table, the sample sets, the counters, the mode and the deferred calls as
\* they were; in the scanner the received-data list holds exactly the decoded
\* words that are not CMD, so a CMD word is neither returned nor counted.
C9_EchoIgnored ==
  [][ /\ (EchoNext /\ processed' = processed + 1) =>
           /\ last_evt'.kind # "pair"
           /\ pending_ups' = pending_ups
           /\ test_delta_values' = test_delta_values
           /\ scan_results' = scan_results
           /\ test_current_round' = test_current_round
           /\ test_round_pairs' = test_round_pairs
           /\ scan_step' = scan_step
           /\ test_mode' = test_mode
           /\ timers' = timers
      /\ CliNoEcho' ]_vars

C9_Witness ==
  /\ last_evt.kind = "CMD"
  /\ last_evt.mode = "FIXED"
  /\ 5 \in DOMAIN pending_ups

\* C10 as stated: whatever reads cut the stream into, once the receiver has
\* returned having read a whole number of frames, the words it decoded are
\* the frames of the bytes it read, in order.
C10_SplitIndependent ==
  (cli_pc = "idle" /\ Len(cli_read) % 4 = 0)
  => cli_frames = FrameLoop(cli_read)

\* the fields read back from bits [31], [30], [29:28], [27:20] and [19:12]
Decoded(w) ==
  [cmd_type      |-> w.hi \div 32768,
   scan_mode     |-> (w.hi \div 16384) % 2,
   channel       |-> (w.hi \div 4096) % 4,
   phase         |-> (w.hi \div 16) % 256,
   pixel_control |-> (w.hi % 16) * 16 + w.lo \div 4096]

\* C11: for every tuple of the declared ranges the word sent gives back each
\* field from its bits, so two different tuples never give the same word.
C11_RoundTrip ==
  cli_send.state = "done" =>
    /\ cli_send.raised = None
    /\ Decoded(cli_send.sent).cmd_type = cli_send.cmd_type
    /\ Decoded(cli_send.sent).scan_mode = cli_send.scan_mode
    /\ Decoded(cli_send.sent).channel = cli_send.channel
    /\ Decoded(cli_send.sent).phase = cli_send.phase
    /\ Decoded(cli_send.sent).pixel_control = cli_send.pixel_control

C11_Witness ==
  /\ cli_send.state = "done"
  /\ cli_send.cmd_type = 1 /\ cli_send.scan_mode = 1 /\ cli_send.channel = 2
  /\ cli_send.phase = 255 /\ cli_send.pixel_control = 129
  /\ cli_send.sent = [hi |-> 61432, lo |-> 4096]

\* C12 as stated: whatever integers the fields are, a connected send_command
\* raises nothing and transmits the word of the fields masked to their widths.
C12_MaskedSilently ==
  (cli_send.state = "done" /\ cli_send.connected) =>
    /\ cli_send.raised = None
    /\ cli_send.sent =
         [hi |-> (cli_send.cmd_type % 2) * 32768 + (cli_send.scan_mode % 2) * 16384
                 + (cli_send.channel % 4) * 4096 + (cli_send.phase % 256) * 16
                 + (cli_send.pixel_control % 256) \div 16,
          lo |-> ((cli_send.pixel_control % 256) % 16) * 4096]

\* a word of 32 bits whose bits [11:0] are zero
WordOk(w) == w.hi \in 0 .. 65535 /\ w.lo \in 0 .. 65535 /\ w.lo % 4096 = 0

\* C13: every word written to the line, by the GUI (manual send, recalibrate,
\* session start, round re-issue, scan step) or by send_command of the
\* scanner, fits in 32 bits and has bits [11:0] zero.
C13_ReservedZero ==
  /\ tx_last # NoWord => WordOk(tx_last)
  /\ cli_send.state = "done" /\ cli_send.sent # NoWord => WordOk(cli_send.sent)

C13_Witness ==
  /\ test_mode = "SCAN" /\ scan_step = 5
  /\ tx_last = [hi |-> 12300, lo |-> 0]

\* a word is written to the line in this step while a SCAN session is on
ScanIssue ==
  /\ test_mode' = "SCAN"
  /\ \/ n_issued' = n_issued + 1
     \/ test_mode = "IDLE"

\* C14 as stated: every word written during a SCAN session while the step is
\* k has type 0, scan_mode 0, channel 0b11, phase 0 and, in bits [18:13],
\* the single-bit mask 1 << k.
C14_StepCommand ==
  [][ ScanIssue =>
        /\ Decoded(tx_last').cmd_type = 0
        /\ Decoded(tx_last').scan_mode = 0
        /\ Decoded(tx_last').channel = 3
        /\ Decoded(tx_last').phase = 0
        /\ (tx_last'.hi % 8) * 8 + tx_last'.lo \div 8192 = Pow2(scan_step') ]_vars

\* C15: stop_auto_test leaves the mode IDLE whatever it was, leaves the FIXED
\* sample list and the six SCAN lists as they were, and changes nothing at
\* all when the mode was already IDLE.
C15_StopKeepsSamples ==
  [][ stop_auto_test =>
        /\ test_mode' = "IDLE"
        /\ test_delta_values' = test_delta_values
        /\ scan_results' = scan_results
        /\ test_mode = "IDLE" => UNCHANGED vars ]_vars

C15_Witness ==
  /\ test_mode = "IDLE" /\ last_test_mode = "FIXED" /\ ~sess_done
  /\ btn_start = "normal"
  /\ Len(test_delta_values) = 1

\* the readers that can still read the port and enqueue
Producers == { i \in 1 .. Len(readers) : ~readers[i].stale }

\* C16 as stated: across any connects and disconnects at most one reader is
\* reading the port and enqueuing at a time.
C16_SingleProducer == Cardinality(Producers) <= 1

\* the frames of the bytes read off the port so far
StreamFrames == FrameLoop(rx_taken)

\* C17 as stated: the queue holds the latest frames of the stream in stream
\* order, and the word the consumer has just ingested is the frame right
\* before them, so the words are ingested in the order of the stream.
C17_StreamOrder ==
  LET F == StreamFrames
      n == Len(F) - Len(data_queue)
  IN /\ n >= 0
     /\ data_queue = SubSeq(F, n + 1, Len(F))
     /\ last_evt.kind # None =>
          /\ n >= 1
          /\ parse_packet(F[n]) = [type |-> last_evt.pkt.type,
                                   ch |-> last_evt.pkt.ch,
                                   id |-> last_evt.pkt.id,
                                   coarse |-> last_evt.pkt.coarse,
                                   fine |-> last_evt.pkt.fine]

\* C18 as stated: once the reader has ended on a read failure or disconnect
\* and the program has nothing left to do, no session is still active with
\* the link reported as connected.
C18_FailureEndsSession ==
  ~ /\ test_mode # "IDLE"
    /\ is_connected
    /\ Len(readers) = 0
    /\ pc = "idle" /\ data_queue = <<>> /\ timers = <<>>

\* C19 as stated: a reader for which the stop flag has been raised does
\* reach its loop test and exit, whatever follows.
C19_ReaderStops ==
  (\E i \in 1 .. Len(readers) : readers[i].flagged)
    ~> (\A i \in 1 .. Len(readers) : ~readers[i].flagged)

\* C20 as stated: the retained event records stay below a fixed number that
\* does not grow with the events received: the pending table holds at most
\* one record per 6-bit id, and the record buffer stays below the count of
\* events the line delivers in a run, which it reaches only if every event
\* received is kept.
C20_BoundedMemory ==
  /\ Cardinality(DOMAIN pending_ups) <= Pow2(6)
  /\ csv_data_buffer < MaxRecords

\* C21: no analysis divides by zero; a FIXED analysis of no samples reports
\* "no data"; a SCAN analysis (the libraries present) of six empty steps
\* reports "no valid data" and no line, and otherwise reports every empty
\* step as N/A and the figures of every other step.
C21_EmptyNoData ==
  analysis.state = "shown" =>
    /\ 0 \notin analysis.report.divs
    /\ (analysis.mode = "FIXED" /\ analysis.fixed = <<>>)
         => analysis.report = Message("no data")
    /\ (analysis.mode = "SCAN" /\ analysis.libs) =>
         IF \A i \in 1 .. 6 : analysis.scan[i] = <<>>
           THEN analysis.report = Message("no valid data")
           ELSE /\ analysis.report.kind = "window"
                /\ \A i \in 1 .. 6 :
                     IF analysis.scan[i] = <<>>
                       THEN analysis.report.rows[i] = NaRow(i - 1)
                       ELSE /\ ~analysis.report.rows[i].na
                            /\ analysis.report.rows[i].step = i - 1
                            /\ analysis.report.rows[i].samples
                                 = Len(analysis.scan[i])
                            /\ analysis.report.rows[i].mean.den
                                 = Len(analysis.scan[i])

C21_Witness ==
  /\ analysis.state = "shown"
  /\ analysis.mode = "SCAN"
  /\ analysis.libs
  /\ analysis.scan = <<<<>>, <<1, 5>>, <<>>, <<3>>, <<>>, <<-2, 4, 4>>>>
  /\ analysis.report.rows[1] = NaRow(0)
  /\ analysis.report.rows[2].samples = 2
  /\ analysis.report.rows[4].fit = FALSE

\* the lists an analysis has summarised, each with its line of figures
Summarised ==
  IF analysis.state # "shown" \/ analysis.report.kind # "window" THEN {}
  ELSE IF analysis.mode = "FIXED"
    THEN { <<analysis.fixed, analysis.report.rows[1]>> }
    ELSE { <<analysis.scan[i], analysis.report.rows[i]>> :
             i \in { j \in 1 .. 6 : analysis.scan[j] # <<>> } }

SumSquares(data) == SumOf([i \in 1 .. Len(data) |-> data[i] * data[i]])

\* C22: every summarised list has count = length, mean = sum / count,
\* variance = (count * sum of squares - sum^2) / count^2, which is the
\* squared deviations over count and not over count - 1, std^2 = variance,
\* and min and max its extrema; [1,2,3,4,5] gives 3, 2, 1 and 5, with
\* 1.4142 <= std < 1.4143.
C22_PopulationStats ==
  \A p \in Summarised :
    LET data == p[1]
        row == p[2]
        n == Len(data)
    IN /\ row.samples = n
       /\ row.mean.num = SumOf(data) /\ row.mean.den = n
       /\ row.var.num * n * n
            = (n * SumSquares(data) - SumOf(data) * SumOf(data)) * row.var.den
       /\ row.var.den > 0
       /\ row.std_sq = row.var
       /\ \E i \in 1 .. n : row.min = data[i]
       /\ \E i \in 1 .. n : row.max = data[i]
       /\ \A i \in 1 .. n : row.min <= data[i] /\ data[i] <= row.max
       /\ data = <<1, 2, 3, 4, 5>> =>
            /\ row.mean.num = 3 * row.mean.den
            /\ row.var.num = 2 * row.var.den
            /\ row.std_sq.num = 2 * row.std_sq.den
            /\ 14142 * 14142 <= 200000000 /\ 200000000 < 14143 * 14143
            /\ row.min = 1 /\ row.max = 5

C22_Witness ==
  /\ analysis.state = "shown"
  /\ analysis.mode = "FIXED"
  /\ analysis.fixed = <<1, 2, 3, 4, 5>>
  /\ analysis.report.kind = "window"
  /\ analysis.report.rows[1].var = [num |-> 250, den |-> 125]

\* b0 + 2^8*b1 + 2^16*b2 + 2^24*b3 as a word
LittleEndian(b) == [lo |-> b[1] + 256 * b[2], hi |-> b[3] + 256 * b[4]]

\* w mod 256, (w >> 8) mod 256, (w >> 16) mod 256, w >> 24
BytesOf(w) == <<w.lo % 256, (w.lo \div 256) % 256, w.hi % 256, w.hi \div 256>>

\* C23: the bytes written for a command word w, by send_command and by
\* send_pixel_cmd, are w's four bytes least significant first, each below
\* 256, and decode back to w; the words the GUI reader queues are the
\* little-endian values of the successive 4-byte frames read off the port.
C23_LittleEndian ==
  /\ (cli_send.state = "done" /\ cli_send.sent # NoWord) =>
       /\ cli_send.data = BytesOf(cli_send.sent)
       /\ \A i \in 1 .. 4 : cli_send.data[i] \in 0 .. 255
       /\ LittleEndian(cli_send.data) = cli_send.sent
  /\ tx_last # NoWord =>
       /\ TxBytes = BytesOf(tx_last)
       /\ \A i \in 1 .. 4 : TxBytes[i] \in 0 .. 255
       /\ LittleEndian(TxBytes) = tx_last
  /\ LET F == [k \in 1 .. Len(rx_taken) \div 4 |->
                 LittleEndian(SubSeq(rx_taken, 4 * k - 3, 4 * k))]
     IN /\ Len(data_queue) <= Len(F)
        /\ data_queue = SubSeq(F, Len(F) - Len(data_queue) + 1, Len(F))

C23_Witness ==
  /\ tx_last = [hi |-> 12296, lo |-> 8192]
  /\ TxBytes = <<0, 32, 8, 48>>
  /\ Len(rx_taken) = 8
  /\ Len(data_queue) = 2

\* a start button pressed
StartStep ==
  \E R \in RoundsOk, P \in PulsesOk :
    start_auto_test_fixed(R, P, 0, 1) \/ start_scan_test(R, P, 0)

\* the packet taken is the DOWN of the pair that completes the last round
\* (of the last step)
LastPairStep ==
  /\ TickStep
  /\ last_evt'.kind = "pair"
  /\ test_round_pairs + 1 >= test_target_pairs_per_round
  /\ test_current_round + 1 >= test_target_rounds
  /\ test_mode = "FIXED" \/ (test_mode = "SCAN" /\ scan_step >= 5)

\* C24: the mode changes only from IDLE to FIXED or SCAN by a start, to IDLE
\* by a stop, and from FIXED or SCAN to IDLE by the pair that completes the
\* last round (of the last step); a start that takes effect starts from
\* IDLE, the start buttons being disabled in every other mode.
C24_ModeTransitions ==
  /\ [](test_mode # "IDLE" => btn_start = "disabled")
  /\ [][ /\ test_mode' # test_mode =>
             \/ /\ StartStep
                /\ test_mode = "IDLE"
                /\ test_mode' \in {"FIXED", "SCAN"}
             \/ /\ stop_auto_test
                /\ test_mode' = "IDLE"
             \/ /\ LastPairStep
                /\ test_mode' = "IDLE"
         /\ (StartStep /\ btn_start' = "disabled") => test_mode = "IDLE"
       ]_vars

C24_Witness ==
  /\ test_mode = "IDLE"
  /\ last_test_mode = "FIXED"
  /\ sess_done
  /\ last_evt.kind = "pair"
  /\ tx_last = RecalCmd

\* a start that took effect
Started == StartStep /\ btn_start' = "disabled"

\* the packet taken completes a pair while a session runs
AcceptedPairStep ==
  TickStep /\ test_mode # "IDLE" /\ last_evt'.kind = "pair"

\* one value is put at the end of the active sample set, all else is kept
AppendedOne ==
  \/ /\ test_mode = "FIXED"
     /\ test_delta_values' = Append(test_delta_values, last_evt'.dt)
     /\ scan_results' = scan_results
  \/ /\ test_mode = "SCAN"
     /\ scan_results' = [scan_results EXCEPT
                           ![scan_step] = Append(@, last_evt'.dt)]

\* C25: a start leaves the active sample set empty; from then until the mode
\* is IDLE again every accepted pair puts exactly one value at the end of
\* the set and every other step leaves the set as it was.
C25_AppendOnly ==
  [][ /\ Started =>
           IF test_mode' = "FIXED"
             THEN test_delta_values' = <<>>
             ELSE \A k \in 0 .. 5 : scan_results'[k] = <<>>
      /\ AcceptedPairStep => AppendedOne
      /\ (test_mode # "IDLE" /\ ~AcceptedPairStep) =>
           IF test_mode = "FIXED"
             THEN test_delta_values' = test_delta_values
             ELSE scan_results' = scan_results
    ]_vars

C25_Witness ==
  /\ test_mode = "FIXED"
  /\ Len(test_delta_values) = 1
  /\ last_evt.kind = "pair"
  /\ test_delta_values[1] = last_evt.dt
  /\ n_put = 3
  /\ csv_data_buffer = 2

Registers == Len(timers') > Len(timers)

\* a deferred re-issue runs in this step
Reissues == \E i \in 1 .. Len(timers) : TimerSend(i) \/ TimerStep(i, 0)

\* C28: the step that handles a pair writes nothing to the line; it
\* registers a re-issue only having appended that pair to the sample set and
\* updated the round counters; and the re-issue runs in a later step, when
\* no callback is handling a packet.
C28_ReissueAfterPair ==
  [][ /\ TickStep => (tx_last' = tx_last /\ n_issued' = n_issued)
      /\ Registers =>
           /\ AcceptedPairStep
           /\ AppendedOne
           /\ timers' = Append(timers, Last(timers'))
           /\ test_round_pairs' = 0
           /\ \/ /\ Last(timers') = "send"
                 /\ test_current_round' = test_current_round + 1
                 /\ scan_step' = scan_step
              \/ /\ Last(timers') = "step"
                 /\ test_current_round' = 0
                 /\ scan_step' = scan_step + 1
      /\ Reissues => (pc = "idle" /\ last_evt = NoEvt)
    ]_vars

C28_Witness ==
  /\ test_mode = "FIXED"
  /\ Len(test_delta_values) = 1
  /\ test_current_round = 1
  /\ n_issued = 2
  /\ timers = <<>>
  /\ tx_last = test_latched_cmd

\* the last session was ended by stop_auto_test and none has started since
Stopped == test_mode = "IDLE" /\ last_test_mode # "IDLE" /\ ~sess_done

\* the rounds the running session has completed
RoundsDone ==
  IF test_mode = "SCAN"
    THEN scan_step * test_target_rounds + test_current_round
    ELSE test_current_round

\* C29 as stated: between a stop and the next start no deferred re-issue or
\* step call writes a command, and a session never has more commands
\* written than its own start and its own completed rounds account for, so
\* no call registered before the stop writes into a later session.
C29_NoIssueAfterStop ==
  /\ [][(Stopped /\ Reissues) => n_issued' = n_issued]_vars
  /\ [](test_mode # "IDLE" => n_issued <= 1 + RoundsDone)

\* the excitation mask, bits [18:13], of a command word
MaskOf(w) == (w.hi % 8) * 8 + w.lo \div 8192

\* C30 as stated: whenever a pair is stored in the sample set of step k of a
\* SCAN session, the step-k command, the one with mask 1 << k, is the command
\* the session has last latched and written.
C30_SampleAfterStepCommand ==
  [][(AcceptedPairStep /\ test_mode = "SCAN")
       => /\ MaskOf(test_latched_cmd) = Pow2(scan_step)
          /\ MaskOf(tx_last) = Pow2(scan_step)]_vars

\* C31 as stated: a pair accepted into a session's samples is made of an UP
\* consumed after that session started; an UP that was pending when the
\* session started is never the UP of an accepted pair.
C31_FreshPairs ==
  (last_evt.kind = "pair" /\ last_evt.mode # "IDLE") => ~last_evt.hist.old

\* samples the counters of the running session account for
SamplesSoFar ==
  test_current_round * test_target_pairs_per_round + test_round_pairs

\* C32 as stated: while a session is active the sample set holds exactly
\* current_round * pulses_per_round + round_pairs values (FIXED: the one
\* list; SCAN: the list of the current step), every earlier step of a SCAN
\* holds target_rounds * pulses_per_round values and every later step none.
C32_SampleCount ==
  /\ test_mode = "FIXED" => Len(test_delta_values) = SamplesSoFar
  /\ test_mode = "SCAN" =>
       \A j \in 0 .. 5 :
         /\ j = scan_step => Len(scan_results[j]) = SamplesSoFar
         /\ j < scan_step =>
              Len(scan_results[j])
                = test_target_rounds * test_target_pairs_per_round
         /\ j > scan_step => Len(scan_results[j]) = 0

\* a SCAN in its third step, second round, one pair into the round, after a
\* FIXED session left samples behind
C32_Witness ==
  /\ test_mode = "SCAN"
  /\ scan_step = 2
  /\ test_target_rounds = 2
  /\ test_target_pairs_per_round = 2
  /\ test_current_round = 1
  /\ test_round_pairs = 1
  /\ Len(scan_results[2]) = 3
  /\ Len(scan_results[1]) = 4
  /\ Len(test_delta_values) = 1

\* C33 as stated: while a session is active the pair counter stays below
\* pulses_per_round, the round counter below target_rounds, and in SCAN the
\* step is one of 0 .. 5, an index of the per-step sample array.
C33_CounterBounds ==
  test_mode # "IDLE" =>
    /\ 0 <= test_round_pairs
    /\ test_round_pairs < test_target_pairs_per_round
    /\ 0 <= test_current_round
    /\ test_current_round < test_target_rounds
    /\ test_mode = "SCAN" => (0 <= scan_step /\ scan_step <= 5)

\* the last pair but one of a SCAN: last step, last round, one pair missing
C33_Witness ==
  /\ test_mode = "SCAN"
  /\ scan_step = 5
  /\ test_current_round = test_target_rounds - 1
  /\ test_round_pairs = test_target_pairs_per_round - 1
  /\ test_target_rounds = MaxRounds
  /\ test_target_pairs_per_round = MaxPulses
  /\ Len(scan_results[5]) = MaxRounds * MaxPulses - 1

\* a start that _init_test_params turns down
RejectedStart ==
  \E R \in RoundsIn, P \in PulsesIn :
    /\ ~ParamsOk(R, P)
    /\ start_auto_test_fixed(R, P, 0, 1) \/ start_scan_test(R, P, 0)

\* C34 as stated: a rejected start leaves the mode IDLE, writes no command
\* and leaves the stored targets, the counters, the sample sets and the
\* record buffer as they were.
C34_RejectedStartNoChange ==
  [][RejectedStart =>
       /\ test_mode' = "IDLE"
       /\ UNCHANGED <<test_mode, tx_last, n_issued, test_latched_cmd,
                      test_target_rounds, test_target_pairs_per_round,
                      test_current_round, test_round_pairs, scan_step,
                      test_delta_values, scan_results, csv_data_buffer>>]_vars

\* C35 as stated: on a line that stays connected, with a device that answers
\* every command with pulses_per_round pairs and with the reader, the
\* consumer callback and the deferred calls scheduled fairly, every started
\* session returns to IDLE.
C35_SessionEnds == (test_mode # "IDLE") ~> (test_mode = "IDLE")

\* a SCAN of the largest size that ran to its end
C35_Witness ==
  /\ test_mode = "IDLE"
  /\ last_test_mode = "SCAN"
  /\ sess_done
  /\ scan_step = 6
  /\ test_target_rounds = MaxRounds
  /\ dev_k = MaxPulses
  /\ \A j \in 0 .. 5 : Len(scan_results[j]) = MaxRounds * MaxPulses

\* receive_data returns: the step that ends a call
CliEnds == cli_pc = "loop" /\ cli_pc' = "idle"

\* C36 as stated: receive_data never holds, and so never returns, more than
\* expected_count records, and it returns fewer only by its timeout.
C36_AtMostExpected ==
  /\ [](Len(cli_data_list) <= cli_expected)
  /\ [][(CliEnds /\ Len(cli_data_list) < cli_expected) => CliTimeout]_vars

\* C37 as stated: for every reset bit and every 6-bit mask the word the
\* window writes is the word send_command builds for type 0, scan_mode 0,
\* channel 0b11, phase 0 and pixel_control = (reset << 7) | (mask << 1), in
\* both directions, and the recalibrate word of the window is the
\* calibration word of the scanner, bit 31 alone.
C37_EncodersAgree ==
  /\ [](\A rst \in RstIn, csa \in MaskIn :
         (/\ cli_send.state = "done"
          /\ cli_send.cmd_type = 0
          /\ cli_send.channel = 3
          /\ cli_send.pixel_control = PixelControl(rst, csa))
           => cli_send.sent = get_current_cmd_int(rst, csa))
  /\ []((/\ cli_send.state = "done"
          /\ cli_send.cmd_type = 1
          /\ cli_send.pixel_control = 0)
          => (cli_send.sent = RecalCmd /\ RecalCmd = [hi |-> 32768, lo |-> 0]))
  /\ [][\A rst \in RstIn, csa \in MaskIn :
          (is_connected /\ send_pixel_cmd(rst, csa))
            => tx_last' = CmdData(0, 0, 3, 0, PixelControl(rst, csa))]_vars
  /\ [][(is_connected /\ send_recalibrate)
          => tx_last' = CmdData(1, 0, 0, 0, 0)]_vars

\* reset and all six excitations sent by the scanner: 0x300FE000, the word
\* of the window for the same boxes
C37_Witness ==
  /\ cli_send.state = "done"
  /\ cli_send.pixel_control = 254
  /\ cli_send.sent = [hi |-> 12303, lo |-> 57344]
  /\ cli_send.sent = get_current_cmd_int(1, 63)

\* the code of a type string and the flag of a channel string
TypeCode(type_str) ==
  CHOOSE c \in 0 .. 3 : <<"UP", "DOWN", "INFO", "CMD">>[c + 1] = type_str
FlagOf(ch_str) == IF ch_str = "UP" THEN 1 ELSE 0

\* the fields of the scanner's record put back at 30, 22, 9, 8 and 0
RepackA(rec) ==
  [hi |-> rec.type * Pow2(14) + rec.id * Pow2(6) + rec.fine \div Pow2(7),
   lo |-> (rec.fine % Pow2(7)) * Pow2(9) + rec.flag * Pow2(8) + rec.coarse]

\* the fields of the window's packet put back at 30, 24, 11, 10 and 0
RepackB(pkt) ==
  [hi |-> TypeCode(pkt.type) * Pow2(14) + pkt.id * Pow2(8)
          + pkt.fine \div Pow2(5),
   lo |-> (pkt.fine % Pow2(5)) * Pow2(11) + FlagOf(pkt.ch) * Pow2(10)
          + pkt.coarse]

WidthsA(rec) ==
  /\ rec.type \in 0 .. 3
  /\ rec.id \in 0 .. 255
  /\ rec.fine \in 0 .. 8191
  /\ rec.flag \in 0 .. 1
  /\ rec.coarse \in 0 .. 255

WidthsB(pkt) ==
  /\ pkt.type \in {"UP", "DOWN", "INFO", "CMD"}
  /\ pkt.id \in 0 .. 63
  /\ pkt.fine \in 0 .. 8191
  /\ pkt.ch \in {"UP", "DOWN"}
  /\ pkt.coarse \in 0 .. 1023

\* C38 as stated: under each receive layout the fields of a word, put back at
\* their positions, give the word again, and every field stays within its
\* width: for every frame the scanner decodes and every record it keeps
\* (Layout A), and for every word the window takes from its queue (Layout B).
C38_LosslessFields ==
  /\ [](\A i \in 1 .. Len(cli_frames) :
         /\ RepackA(CliParse(cli_frames[i])) = cli_frames[i]
         /\ WidthsA(CliParse(cli_frames[i])))
  /\ [](\A i \in 1 .. Len(cli_data_list) :
         /\ RepackA(cli_data_list[i]) = cli_data_list[i].raw
         /\ WidthsA(cli_data_list[i]))
  /\ [][TickStep =>
          /\ RepackB(last_evt'.pkt) = Head(data_queue)
          /\ WidthsB(last_evt'.pkt)]_vars

\* the word 0xA5A55A5A classified by the scanner: type 2, id 150, fine 4781,
\* flag 0, coarse 90
C38_Witness ==
  /\ Len(cli_data_list) = 1
  /\ cli_data_list[1].raw = [hi |-> 42405, lo |-> 23130]
  /\ cli_data_list[1].type = 2
  /\ cli_data_list[1].id = 150
  /\ cli_data_list[1].fine = 4781
  /\ cli_data_list[1].flag = 0
  /\ cli_data_list[1].coarse = 90

\* ---- the delay analysis of the scanner (analyze_pixel_delay) ----

\* CLK_PERIOD = 3846, in ps
CLK_PERIOD == 3846

\* the words on the wire: an UP and a DOWN of id 5, a DOWN of id 6, a word of
\* type UP whose flag bit is 0, and an INFO word with the flag bit set
DelayWords == { MkWordA(T_UP, 5, 100, 1, 20), MkWordA(T_DOWN, 5, 80, 0, 5),
                MkWordA(T_DOWN, 6, 60, 0, 7), MkWordA(T_UP, 5, 40, 0, 9),
                MkWordA(T_INFO, 0, 0, 1, 0) }

DelayStreams ==
  { Flatten(ws) : ws \in UNION { [1 .. n -> DelayWords] : n \in 1 .. MaxCliWords } }

\* up_data = [d for d in data_list if d['type'] == 0b00 or d.get('flag') == 1]
InUp(d) == d.type = 0 \/ d.flag = 1
up_data(data_list) == SelectSeq(data_list, InUp)

\* down_data = [d for d in data_list if d['type'] == 0b01 or d.get('flag') == 0]
InDown(d) == d.type = 1 \/ d.flag = 0
down_data(data_list) == SelectSeq(data_list, InDown)

\* (up_coarse - down_coarse) * CLK_PERIOD - (up_fine - down_fine)
time_delay(up, down) ==
  (up.coarse - down.coarse) * CLK_PERIOD - (up.fine - down.fine)

\* the first min_len entries of the two groups, combined index by index
DelayPairs(ups, downs) ==
  LET min_len == Min(Len(ups), Len(downs))
  IN [i \in 1 .. min_len |->
        [up |-> ups[i], down |-> downs[i],
         delay |-> time_delay(ups[i], downs[i])]]

\* what analyze_pixel_delay works out from data_list; without numpy it
\* returns at once, and with an empty group it returns before the pairing
DelayReport(libs, data_list) ==
  IF ~libs
    THEN [state |-> "skipped", libs |-> libs, data |-> data_list,
          up_data |-> <<>>, down_data |-> <<>>, pairs |-> <<>>]
  ELSE IF Len(up_data(data_list)) = 0 \/ Len(down_data(data_list)) = 0
    THEN [state |-> "delay", libs |-> libs, data |-> data_list,
          up_data |-> up_data(data_list), down_data |-> down_data(data_list),
          pairs |-> <<>>]
  ELSE [state |-> "delay", libs |-> libs, data |-> data_list,
        up_data |-> up_data(data_list), down_data |-> down_data(data_list),
        pairs |-> DelayPairs(up_data(data_list), down_data(data_list))]

\* analyze_pixel_delay(data, pulse_count), called with what receive_data
\* returned when that is not empty; pulse_count is only printed
analyze_pixel_delay ==
  /\ cli_pc = "idle"
  /\ cli_expected > 0
  /\ cli_data_list # <<>>
  /\ analysis' = DelayReport(analysis.libs, cli_data_list)
  /\ UNCHANGED <<guiAll, cliVars, probe, rxVars, cli_send>>

InitDelay ==
  /\ GuiOff
  /\ ProbeOff
  /\ RxOff
  /\ SendOff
  /\ analysis \in { [state |-> "off", libs |-> libs] : libs \in BOOLEAN }
  /\ cli_pc = "idle"
  /\ cli_wire \in DelayStreams
  /\ cli_in = <<>>
  /\ cli_buffer = <<>>
  /\ cli_data_list = <<>>
  /\ cli_expected = 0
  /\ cli_read = <<>>
  /\ cli_frames = <<>>

NextDelay ==
  \/ NextCli
  \/ analyze_pixel_delay

SpecDelay == InitDelay /\ [][NextDelay]_vars

\* C39: in the delay analysis of the scanner every received record is in
\* exactly one of the UP group and the DOWN group, and the i-th UP is combined
\* only with a DOWN that carries the same id
C39_OneGroupSameId ==
  analysis.state = "delay" =>
    /\ \A i \in 1 .. Len(analysis.data) :
         LET d == analysis.data[i]
         IN (\E j \in 1 .. Len(analysis.up_data) : analysis.up_data[j] = d)
              # (\E j \in 1 .. Len(analysis.down_data) : analysis.down_data[j] = d)
    /\ Len(analysis.up_data) + Len(analysis.down_data) = Len(analysis.data)
    /\ \A i \in 1 .. Len(analysis.pairs) :
         analysis.pairs[i].up.id = analysis.pairs[i].down.id

\* one of the two scripts runs
InitEither == InitOpen \/ InitCli
NextEither == Next \/ NextCli
SpecEither == InitEither /\ [][NextEither]_vars

====
